---- MODULE Spec2Model ----
(***************************************************************************)
(* Verification model of the e-COS backend core: the reputation engine     *)
(* (gamification/engine.py), the event lifecycle state machine             *)
(* (events/state_machine.py), the registration endpoint                    *)
(* (events/views/registrations.py) and the community membership endpoints  *)
(* (core/views.py, events/views/communities.py).                           *)
(*                                                                         *)
(* The database is PostgreSQL (config/settings.py:104-116) at its default  *)
(* READ COMMITTED isolation: a statement reads what was committed before   *)
(* it started, writes of an open transaction are invisible to others until *)
(* COMMIT, and a second writer of a row (or of a unique key) waits for the *)
(* first writer's transaction to end.                                      *)
(***************************************************************************)
EXTENDS Integers, FiniteSets, Sequences, Bags, TLC

\* ------------------------------------------------------------------------
\* Bounds of the model
\* ------------------------------------------------------------------------
\* number of DomainActivity rows
MaxActivities == 3
\* number of process_activity calls made for one activity
MaxCalls == 2

Users == {"u1", "u2"}
Communities == {"c1"}
NoCommunity == "none"
Workers == {"w1", "w2"}
ActivityIds == 1..MaxActivities

\* ------------------------------------------------------------------------
\* core/constants.py: activity verbs
\* ------------------------------------------------------------------------
ACTIVITY_EVENT_REGISTERED == "event.registered"
ACTIVITY_EVENT_ATTENDED == "event.attended"
ACTIVITY_EVENT_CREATED == "event.created"
ACTIVITY_EVENT_PUBLISHED == "event.published"
ACTIVITY_MEMBER_JOINED == "community.joined"
ACTIVITY_CERTIFICATE_ISSUED == "certificate.issued"
ACTIVITY_PENALTY == "reputation.penalty"
ACTIVITY_MANUAL_ADJUSTMENT == "reputation.adjustment"

\* the verbs the model logs: two with fixed points (one of them counted as
\* hosted), one with dynamic points, one that bears no reputation
Verbs == {ACTIVITY_EVENT_ATTENDED, ACTIVITY_EVENT_PUBLISHED,
          ACTIVITY_PENALTY, ACTIVITY_EVENT_REGISTERED}

\* metadata of an activity: 'xp_change' absent (has_xp = FALSE), or a signed amount
XpChanges == {-120}

VARIABLES
    activity,   \* core_domainactivity: id -> [actor, verb, community, xp_change]
    ledger,     \* gamification_reputationlog: bag of committed rows
    stats,      \* gamification_usercommunitystats: <<user, community>> -> row (present or not)
    pc,         \* per worker: position inside process_activity
    cur,        \* per worker: locals of the running process_activity call
    calls       \* history: per activity, the number of process_activity calls made

VARIABLES
    evStatus,   \* events_event.status: event id -> status
    trResult    \* the last call of transition(): its arguments and what it returned

VARIABLES
    evCapacity, \* events_event.capacity: event id -> capacity (0: unlimited)
    regs,       \* events_eventregistration: committed rows [event, user, guests_count]
    attendance, \* events_eventattendance: the registrations <<event, user>> that have a row
    evLock,     \* per event row: the request holding its SELECT ... FOR UPDATE lock
    rpc,        \* per attendee: position of the attendee's register request
    rcur,       \* per attendee: event_id and guests_count of the request, and its response
    nreq        \* history: per attendee, the number of register requests sent

VARIABLES
    communities, \* core_community: the ids of the rows
    members,     \* core_communitymembership: <<community, user>> -> [present, role, is_active]
    cpc,         \* per user: position of the user's community request
    ccur         \* per user: the request's handler and arguments, and its response

VARIABLES
    account,     \* users_user: user -> [is_authenticated, is_superuser, role]
    evOrganizer, \* events_event.organizer_id: event id -> user
    evCommunity, \* events_event.community_id: event id -> community, or none
    evDeleted,   \* the event ids whose row has been deleted
    team,        \* events_eventteammember: <<event, user>> -> [present, role, is_active]
    checkIn,     \* events_eventattendance.check_in: the rows <<event, user>> where it is set
    checkOut,    \* events_eventattendance.check_out: the rows <<event, user>> where it is set
    regAttended, \* events_eventregistration.status: the rows <<event, user>> with 'attended'
    verdict,     \* the last EventPolicy check: its arguments and what it returned
    vresp        \* the last request to an event view: its arguments and its response

VARIABLES
    txState      \* per activity: the transaction around the log_activity call that writes it

VARIABLES
    evStart,     \* events_event.start_time: event id -> time
    evEnd,       \* events_event.end_time: event id -> time
    clock,       \* timezone.now()
    validated    \* the last validate_action_for_status call: its arguments and result

VARIABLES
    invite,      \* core_communityinvite: the row of the one invite, of OtherCommunity
    jpc,         \* per user: where the join-by-token request is
    jcur,        \* per user: the invite object the request loaded, and its response
    njoin,       \* per user: the join requests sent
    joined       \* the users a join request has created a membership for

VARIABLES
    pteam,       \* events_eventteam: the row of the one participant team
    pmembers,    \* events_participantteammember: the users in the team
    tjresp       \* the last join_team request: its arguments and its response

VARIABLES
    statusCache, \* signals.py:20 _event_status_cache: event id -> old status, or no entry
    spc,         \* per worker: where its Event.save() is
    scur,        \* per worker: the instance it saves and the activity the save logged
    nsave        \* per worker: the saves started

repVars == <<activity, ledger, stats, pc, cur, calls>>
evtVars == <<evStatus, trResult>>
regVars == <<evCapacity, regs, attendance, evLock, rpc, rcur, nreq>>
comVars == <<communities, members, cpc, ccur>>
polVars == <<account, evOrganizer, evCommunity, evDeleted, team, checkIn, checkOut, regAttended,
             verdict, vresp>>
txVars == <<txState>>
timeVars == <<evStart, evEnd, clock, validated>>
\* the variables of the helpers and views that follow the request views
invVars == <<invite, jpc, jcur, njoin, joined>>
teamVars == <<pteam, pmembers, tjresp>>
sigVars == <<statusCache, spc, scur, nsave>>
extVars == <<timeVars, invVars, teamVars, sigVars>>

vars == <<repVars, evtVars, regVars, comVars, polVars, txVars, extVars>>

\* the variables the reputation engine does not touch
nonRepVars == <<evtVars, regVars, comVars, polVars, txVars, extVars>>

\* ------------------------------------------------------------------------
\* gamification/engine.py
\* ------------------------------------------------------------------------
\* ReputationEngine.POINTS_MAP.get(verb)
POINTS_MAP(verb) ==
    CASE verb = ACTIVITY_EVENT_ATTENDED -> 10
      [] verb = ACTIVITY_EVENT_CREATED -> 50
      [] verb = ACTIVITY_EVENT_PUBLISHED -> 50
      [] verb = ACTIVITY_CERTIFICATE_ISSUED -> 15
      [] verb = ACTIVITY_MEMBER_JOINED -> 5

\* the keys of ReputationEngine.POINTS_MAP
MappedVerbs ==
    {ACTIVITY_EVENT_ATTENDED, ACTIVITY_EVENT_CREATED, ACTIVITY_EVENT_PUBLISHED,
     ACTIVITY_CERTIFICATE_ISSUED, ACTIVITY_MEMBER_JOINED}

\* engine.py:35: `points is None` (the verb bears no reputation)
PointsIsNone(a) ==
    /\ a.verb \notin {ACTIVITY_PENALTY, ACTIVITY_MANUAL_ADJUSTMENT}
    /\ a.verb \notin MappedVerbs

\* engine.py:29-33: the points of an activity whose points are not None
PointsOf(a) ==
    IF a.verb \in {ACTIVITY_PENALTY, ACTIVITY_MANUAL_ADJUSTMENT}
    THEN (IF a.has_xp THEN a.xp_change ELSE 0)
    ELSE POINTS_MAP(a.verb)

Max(x, y) == IF x >= y THEN x ELSE y

\* variant of LevelOf: the level computed without the floor at zero XP
LevelOfUnfloored(total_xp) == 1 + (total_xp \div 100)

\* engine.py:65: new_level = 1 + (max(0, stats.total_xp) // 100)
LevelOf(total_xp) == 1 + (Max(0, total_xp) \div 100)

\* models.py:59-69: the column defaults of a new UserCommunityStats row
DefaultStats ==
    [present |-> TRUE, total_xp |-> 0, current_level |-> 1, events_attended |-> 0,
     events_hosted |-> 0, stats |-> [v \in Verbs |-> 0]]

\* variant of UpdatedStats: total_xp floored at zero when a penalty is applied
UpdatedStatsFloored(row, verb, points) ==
    LET xp == Max(0, row.total_xp + points)
    IN [present |-> TRUE, total_xp |-> xp,
        current_level |-> LevelOf(xp),
        events_attended |-> row.events_attended
                              + (IF verb = ACTIVITY_EVENT_ATTENDED THEN 1 ELSE 0),
        events_hosted |-> row.events_hosted
                              + (IF verb \in {ACTIVITY_EVENT_CREATED, ACTIVITY_EVENT_PUBLISHED}
                                 THEN 1 ELSE 0),
        stats |-> [row.stats EXCEPT ![verb] = @ + 1]]

\* engine.py:61-78: the in-memory update of the stats object
UpdatedStats(row, verb, points) ==
    LET xp == row.total_xp + points
    IN [present |-> TRUE, total_xp |-> xp,
        current_level |-> LevelOf(xp),
        events_attended |-> row.events_attended
                              + (IF verb = ACTIVITY_EVENT_ATTENDED THEN 1 ELSE 0),
        events_hosted |-> row.events_hosted
                              + (IF verb \in {ACTIVITY_EVENT_CREATED, ACTIVITY_EVENT_PUBLISHED}
                                 THEN 1 ELSE 0),
        stats |-> [row.stats EXCEPT ![verb] = @ + 1]]

\* engine.py:48-54: the ReputationLog row of an activity
LogRow(id, a, points) ==
    [user |-> a.actor, community |-> a.community, amount |-> points,
     reason |-> a.verb, activity |-> id]

\* variant of LogExists: only awards (positive amounts) count as processed
LogExistsPositive(id) == \E e \in BagToSet(ledger) : e.activity = id /\ e.amount > 0

\* engine.py:44: ReputationLog.objects.filter(activity=activity).exists()
LogExists(id) == \E e \in BagToSet(ledger) : e.activity = id

StatsKey(a) == <<a.actor, a.community>>

\* no UserCommunityStats row for the key
NoRow == [DefaultStats EXCEPT !.present = FALSE]

IdleCur == [act |-> 0, points |-> 0, row |-> NoRow, created |-> FALSE]

\* another open transaction holds an uncommitted INSERT of the stats row `key`
\* (models.py:74 unique_together): a second INSERT of the key waits for it
InsertPending(w, key) ==
    \E o \in Workers \ {w} :
        /\ pc[o] = "save"
        /\ cur[o].created
        /\ StatsKey(activity[cur[o].act]) = key

\* engine.py:24-40: entry of process_activity, up to `with transaction.atomic()`
Begin(w, id) ==
    /\ pc[w] = "idle"
    /\ calls[id] < MaxCalls
    /\ calls' = [calls EXCEPT ![id] = @ + 1]
    /\ LET a == activity[id]
       IN IF PointsIsNone(a) \/ a.community = NoCommunity
          THEN UNCHANGED <<pc, cur>>
          ELSE /\ pc' = [pc EXCEPT ![w] = "check"]
               /\ cur' = [cur EXCEPT ![w] = [IdleCur EXCEPT !.act = id, !.points = PointsOf(a)]]
    /\ UNCHANGED <<activity, ledger, stats, nonRepVars>>

\* engine.py:44-54: the idempotency check, then the (uncommitted) INSERT of the log row
CheckAndLog(w) ==
    /\ pc[w] = "check"
    /\ IF LogExists(cur[w].act)
       THEN /\ pc' = [pc EXCEPT ![w] = "idle"]
            /\ cur' = [cur EXCEPT ![w] = IdleCur]
       ELSE /\ pc' = [pc EXCEPT ![w] = "get_stats"]
            /\ UNCHANGED cur
    /\ UNCHANGED <<activity, ledger, stats, calls, nonRepVars>>

\* engine.py:57-60: get_or_create, the SELECT
GetStats(w) ==
    /\ pc[w] = "get_stats"
    /\ LET key == StatsKey(activity[cur[w].act])
       IN IF stats[key].present
          THEN /\ cur' = [cur EXCEPT ![w].row = stats[key]]
               /\ pc' = [pc EXCEPT ![w] = "save"]
          ELSE /\ pc' = [pc EXCEPT ![w] = "create_stats"]
               /\ UNCHANGED cur
    /\ UNCHANGED <<activity, ledger, stats, calls, nonRepVars>>

\* engine.py:57-60: get_or_create, the INSERT after a miss; on a unique-key
\* conflict (IntegrityError) get_or_create reads the row the other call committed
CreateStats(w) ==
    /\ pc[w] = "create_stats"
    /\ LET key == StatsKey(activity[cur[w].act])
       IN /\ ~InsertPending(w, key)
          /\ IF stats[key].present
             THEN cur' = [cur EXCEPT ![w].row = stats[key]]
             ELSE cur' = [cur EXCEPT ![w].row = DefaultStats, ![w].created = TRUE]
    /\ pc' = [pc EXCEPT ![w] = "save"]
    /\ UNCHANGED <<activity, ledger, stats, calls, nonRepVars>>

\* engine.py:61-80: update the object, stats.save(), COMMIT
SaveStats(w) ==
    /\ pc[w] = "save"
    /\ LET id == cur[w].act
           a == activity[id]
       IN /\ ledger' = ledger (+) SetToBag({LogRow(id, a, cur[w].points)})
          /\ stats' = [stats EXCEPT ![StatsKey(a)] = UpdatedStats(cur[w].row, a.verb, cur[w].points)]
    /\ pc' = [pc EXCEPT ![w] = "idle"]
    /\ cur' = [cur EXCEPT ![w] = IdleCur]
    /\ UNCHANGED <<activity, calls, nonRepVars>>

\* one step of a process_activity call run by worker w
process_activity(w) ==
    \/ \E id \in ActivityIds : Begin(w, id)
    \/ CheckAndLog(w)
    \/ GetStats(w)
    \/ CreateStats(w)
    \/ SaveStats(w)

\* the DomainActivity rows a run starts with
ActivityRows ==
    [actor : Users, verb : Verbs, community : Communities \cup {NoCommunity},
     has_xp : BOOLEAN, xp_change : XpChanges \cup {0}]

\* xp_change is read for the dynamic verbs only
WellFormedActivity(a) ==
    /\ a.has_xp <=> a.xp_change \in XpChanges
    /\ a.verb \notin {ACTIVITY_PENALTY, ACTIVITY_MANUAL_ADJUSTMENT} => ~a.has_xp

\* position of x in the sequence s
IndexIn(s, x) == CHOOSE i \in DOMAIN s : s[i] = x

\* a total order of the activity rows, by their fields
Rank(a) ==
    (((IndexIn(<<"u1", "u2">>, a.actor) * 2
       + IndexIn(<<"c1", NoCommunity>>, a.community)) * 4
      + IndexIn(<<ACTIVITY_EVENT_ATTENDED, ACTIVITY_EVENT_PUBLISHED,
                  ACTIVITY_PENALTY, ACTIVITY_EVENT_REGISTERED>>, a.verb)) * 2
     + (IF a.has_xp THEN 1 ELSE 0))

\* process_activity never compares activity ids, so the rows are listed in
\* one order only (any multiset of rows is still an initial state)
InitRep ==
    /\ activity \in [ActivityIds -> {a \in ActivityRows : WellFormedActivity(a)}]
    /\ \A i \in ActivityIds : i + 1 \in ActivityIds => Rank(activity[i]) <= Rank(activity[i + 1])
    /\ ledger = EmptyBag
    /\ stats = [k \in Users \X Communities |-> NoRow]
    /\ pc = [w \in Workers |-> "idle"]
    /\ cur = [w \in Workers |-> IdleCur]
    /\ calls = [id \in ActivityIds |-> 0]

\* the reputation tables while another part of the system is examined
QuietRep ==
    /\ activity = <<>>
    /\ ledger = EmptyBag
    /\ stats = [k \in Users \X Communities |-> NoRow]
    /\ pc = [w \in Workers |-> "idle"]
    /\ cur = [w \in Workers |-> IdleCur]
    /\ calls = <<>>

\* ------------------------------------------------------------------------
\* events/models.py, events/state_machine.py
\* ------------------------------------------------------------------------
\* number of Event rows
MaxEvents == 2
EventIds == 1..MaxEvents

STATUS_DRAFT == "draft"
STATUS_PENDING == "pending"
STATUS_APPROVED == "approved"
STATUS_REJECTED == "rejected"

\* dict(Event.STATUS_CHOICES)
STATUS_CHOICES == {STATUS_DRAFT, STATUS_PENDING, STATUS_APPROVED, STATUS_REJECTED}

\* a status value a caller may pass that is no Event status
UnknownStatus == "archived"

\* variant of VALID_TRANSITIONS: an approved event may go back to draft
VALID_TRANSITIONS_WithUnpublishToDraft(st) ==
    CASE st = STATUS_DRAFT -> {STATUS_PENDING, STATUS_APPROVED}
      [] st = STATUS_PENDING -> {STATUS_APPROVED, STATUS_REJECTED}
      [] st = STATUS_APPROVED -> {STATUS_REJECTED, STATUS_PENDING, STATUS_DRAFT}
      [] st = STATUS_REJECTED -> {STATUS_PENDING, STATUS_DRAFT}
      [] OTHER -> {}

\* variant of VALID_TRANSITIONS: nothing leaves rejected
VALID_TRANSITIONS_RejectedFinal(st) ==
    CASE st = STATUS_DRAFT -> {STATUS_PENDING, STATUS_APPROVED}
      [] st = STATUS_PENDING -> {STATUS_APPROVED, STATUS_REJECTED}
      [] st = STATUS_APPROVED -> {STATUS_REJECTED, STATUS_PENDING}
      [] OTHER -> {}

\* state_machine.py:20-25, read as VALID_TRANSITIONS.get(st, [])
VALID_TRANSITIONS(st) ==
    CASE st = STATUS_DRAFT -> {STATUS_PENDING, STATUS_APPROVED}
      [] st = STATUS_PENDING -> {STATUS_APPROVED, STATUS_REJECTED}
      [] st = STATUS_APPROVED -> {STATUS_REJECTED, STATUS_PENDING}
      [] st = STATUS_REJECTED -> {STATUS_PENDING, STATUS_DRAFT}
      [] OTHER -> {}

\* a returned message: its fixed text and the two statuses formatted into it
Message(text, from, to) == [text |-> text, from |-> from, to |-> to]

\* variant of can_transition: the same status is looked up in the table too
can_transition_NoSelf(current_status, new_status) ==
    IF new_status \notin STATUS_CHOICES
    THEN [can |-> FALSE, reason |-> Message("Invalid status: ", "", new_status)]
    ELSE IF new_status \notin VALID_TRANSITIONS(current_status)
    THEN [can |-> FALSE,
          reason |-> Message("Cannot transition from to", current_status, new_status)]
    ELSE [can |-> TRUE, reason |-> Message("", "", "")]

\* state_machine.py:28-47: (can_transition, reason)
can_transition(current_status, new_status) ==
    IF new_status = current_status
    THEN [can |-> TRUE, reason |-> Message("Same status", "", "")]
    ELSE IF new_status \notin STATUS_CHOICES
    THEN [can |-> FALSE, reason |-> Message("Invalid status: ", "", new_status)]
    ELSE IF new_status \notin VALID_TRANSITIONS(current_status)
    THEN [can |-> FALSE,
          reason |-> Message("Cannot transition from to", current_status, new_status)]
    ELSE [can |-> TRUE, reason |-> Message("", "", "")]

NoTransition ==
    [event |-> 0, from |-> "", to |-> "", save |-> FALSE, success |-> FALSE,
     message |-> Message("", "", ""), status |-> ""]

\* state_machine.py:50-83: transition(event, new_status, actor, save) on the
\* event object loaded from row e; `status` is event.status when it returns
transition(e, new_status, save) ==
    LET old_status == evStatus[e]
        r == can_transition(old_status, new_status)
    IN IF ~r.can
       THEN /\ trResult' = [event |-> e, from |-> old_status, to |-> new_status,
                            save |-> save, success |-> FALSE, message |-> r.reason,
                            status |-> old_status]
            /\ UNCHANGED evStatus
       ELSE /\ trResult' = [event |-> e, from |-> old_status, to |-> new_status,
                            save |-> save, success |-> TRUE,
                            message |-> Message("Transitioned from to", old_status, new_status),
                            status |-> new_status]
            /\ evStatus' = IF save THEN [evStatus EXCEPT ![e] = new_status] ELSE evStatus

\* a caller invokes transition() on an event
Transition(e, new_status, save) ==
    /\ transition(e, new_status, save)
    /\ UNCHANGED <<repVars, regVars, comVars, polVars, txVars, extVars>>

\* state_machine.py:86-90
get_allowed_transitions(st) == VALID_TRANSITIONS(st)

\* state_machine.py:93-99: the status is no key of the table or its list is empty
is_terminal_status(st) ==
    \/ st \notin {STATUS_DRAFT, STATUS_PENDING, STATUS_APPROVED, STATUS_REJECTED}
    \/ Cardinality(VALID_TRANSITIONS(st)) = 0

InitEvt ==
    /\ evStatus \in [EventIds -> STATUS_CHOICES]
    /\ trResult = NoTransition

QuietEvt ==
    /\ evStatus = [e \in EventIds |-> STATUS_APPROVED]
    /\ trResult = NoTransition

\* ------------------------------------------------------------------------
\* events/views/registrations.py: RegisterEventView
\* ------------------------------------------------------------------------
\* largest Event.capacity of the model
MaxCapacity == 2
\* number of register requests one attendee sends
MaxRequests == 2
\* registrations.py:38: the largest accepted guests_count
MaxGuests == 10

Attendees == {"a1", "a2", "a3"}
\* an event id that has no row
NoEvent == 0
NoHolder == "nobody"
\* the event_id of a register request: the event row the requests compete
\* for, or an id without a row (requests for different events share no row:
\* every query of the view filters by event)
RegTargets == {NoEvent, 1}
\* request.data['guests_count']: none, one, and one more than accepted
GuestChoices == {0, 1, MaxGuests + 1}

HTTP_201_CREATED == 201
HTTP_400_BAD_REQUEST == 400
HTTP_404_NOT_FOUND == 404
HTTP_409_CONFLICT == 409

\* a response: status code, the fixed part of the error text, and spots_left
Response(code, error, spots_left) == [code |-> code, error |-> error, spots_left |-> spots_left]
NoResponse == Response(0, "", 0)
IdleReq == [event |-> NoEvent, guests |-> 0, response |-> NoResponse]

\* EventRegistration.objects.filter(event=event)
RegsOf(e) == {r \in regs : r.event = e}

\* registrations.py:28, 47: a registration of the user for the event exists
Registered(e, u) == \E r \in regs : r.event = e /\ r.user = u

RECURSIVE SumGuests(_)
\* registrations.py:56-58: aggregate(Sum('guests_count')) or 0
SumGuests(rows) ==
    IF rows = {} THEN 0
    ELSE LET r == CHOOSE x \in rows : TRUE
         IN r.guests_count + SumGuests(rows \ {r})

\* registrations.py:55-59: total_filled
TotalFilled(e) == Cardinality(RegsOf(e)) + SumGuests(RegsOf(e))

\* variant of EventRowLocked: the event row is read without FOR UPDATE
EventRowNeverLocked(e, u) == FALSE

\* registrations.py:44: another open transaction holds the FOR UPDATE lock
\* of the event row, so this SELECT ... FOR UPDATE waits
EventRowLocked(e, u) == evLock[e] \notin {NoHolder, u}

\* the request returns `response`
Respond(u, response) ==
    /\ rpc' = [rpc EXCEPT ![u] = "done"]
    /\ rcur' = [rcur EXCEPT ![u].response = response]

\* registrations.py:20-39: the request arrives; the check outside the
\* transaction and the bounds of guests_count
RegisterStart(u, e, g) ==
    /\ rpc[u] \in {"idle", "done"}
    /\ nreq[u] < MaxRequests
    /\ nreq' = [nreq EXCEPT ![u] = @ + 1]
    /\ IF Registered(e, u)
       THEN /\ rpc' = [rpc EXCEPT ![u] = "done"]
            /\ rcur' = [rcur EXCEPT ![u] =
                           [event |-> e, guests |-> g,
                            response |-> Response(HTTP_409_CONFLICT, "", 0)]]
       ELSE IF g < 0 \/ g > MaxGuests
       THEN /\ rpc' = [rpc EXCEPT ![u] = "done"]
            /\ rcur' = [rcur EXCEPT ![u] =
                           [event |-> e, guests |-> g,
                            response |-> Response(HTTP_400_BAD_REQUEST,
                                                  "Guest count must be between 0 and 10", 0)]]
       ELSE /\ rpc' = [rpc EXCEPT ![u] = "lock"]
            /\ rcur' = [rcur EXCEPT ![u] = [event |-> e, guests |-> g, response |-> NoResponse]]
    /\ UNCHANGED <<evCapacity, regs, attendance, evLock, repVars, evtVars, comVars, polVars, txVars, extVars>>

\* registrations.py:42-44, 85-86: BEGIN, SELECT ... FOR UPDATE of the event row
RegisterLock(u) ==
    /\ rpc[u] = "lock"
    /\ LET e == rcur[u].event
       IN IF e \notin EventIds
          THEN /\ Respond(u, Response(HTTP_404_NOT_FOUND, "Event not found", 0))
               /\ UNCHANGED evLock
          ELSE /\ ~EventRowLocked(e, u)
               /\ evLock' = [evLock EXCEPT ![e] = u]
               /\ rpc' = [rpc EXCEPT ![u] = "check"]
               /\ UNCHANGED rcur
    /\ UNCHANGED <<evCapacity, regs, attendance, nreq, repVars, evtVars, comVars, polVars, txVars, extVars>>

\* the event row lock is released when the transaction of u ends
Released(u, e) == IF evLock[e] = u THEN [evLock EXCEPT ![e] = NoHolder] ELSE evLock

\* registrations.py:46-71: inside the transaction, the second check for a
\* registration of the user and the capacity check
RegisterCheck(u) ==
    /\ rpc[u] = "check"
    /\ LET e == rcur[u].event
           total_filled == TotalFilled(e)
           spots_needed == 1 + rcur[u].guests
       IN IF Registered(e, u)
          THEN /\ Respond(u, Response(HTTP_409_CONFLICT, "Already registered", 0))
               /\ evLock' = Released(u, e)
          ELSE IF evCapacity[e] > 0 /\ total_filled + spots_needed > evCapacity[e]
          THEN /\ Respond(u, Response(HTTP_400_BAD_REQUEST, "Event is full. Only spots left.",
                                      Max(0, evCapacity[e] - total_filled)))
               /\ evLock' = Released(u, e)
          ELSE /\ rpc' = [rpc EXCEPT ![u] = "create"]
               /\ UNCHANGED <<rcur, evLock>>
    /\ UNCHANGED <<evCapacity, regs, attendance, nreq, repVars, evtVars, comVars, polVars, txVars, extVars>>

\* registrations.py:73-83, 107: create the registration and its attendance
\* row, COMMIT, 201
RegisterCreate(u) ==
    /\ rpc[u] = "create"
    /\ LET e == rcur[u].event
       IN /\ regs' = regs \cup {[event |-> e, user |-> u, guests_count |-> rcur[u].guests]}
          /\ attendance' = attendance \cup {<<e, u>>}
          /\ evLock' = Released(u, e)
    /\ Respond(u, Response(HTTP_201_CREATED, "", 0))
    /\ UNCHANGED <<evCapacity, nreq, repVars, evtVars, comVars, polVars, txVars, extVars>>

\* one step of the register request of attendee u
RegisterEventView_post(u) ==
    \/ \E e \in RegTargets, g \in GuestChoices : RegisterStart(u, e, g)
    \/ RegisterLock(u)
    \/ RegisterCheck(u)
    \/ RegisterCreate(u)

InitReg ==
    /\ evCapacity \in [EventIds -> 0..MaxCapacity]
    /\ \A e \in EventIds \ RegTargets : evCapacity[e] = 0
    /\ regs = {}
    /\ attendance = {}
    /\ evLock = [e \in EventIds |-> NoHolder]
    /\ rpc = [u \in Attendees |-> "idle"]
    /\ rcur = [u \in Attendees |-> IdleReq]
    /\ nreq = [u \in Attendees |-> 0]

QuietReg ==
    /\ evCapacity = [e \in EventIds |-> 0]
    /\ regs = {}
    /\ attendance = {}
    /\ evLock = [e \in EventIds |-> NoHolder]
    /\ rpc = [u \in Attendees |-> "idle"]
    /\ rcur = [u \in Attendees |-> IdleReq]
    /\ nreq = [u \in Attendees |-> 0]

\* ------------------------------------------------------------------------
\* core/models.py: CommunityMembership; core/views.py and
\* events/views/communities.py: the membership endpoints
\* ------------------------------------------------------------------------
ROLE_OWNER == "owner"
ROLE_ORGANIZER == "organizer"
ROLE_MEMBER == "member"
ROLE_PARTICIPANT == "participant"
ROLE_ADMIN == "admin"

\* core/models.py:295-301
ROLE_CHOICES == {ROLE_OWNER, ROLE_ORGANIZER, ROLE_MEMBER, ROLE_PARTICIPANT, ROLE_ADMIN}

\* request.data['role'] of the model's requests: three roles and a string
\* that is no role
RoleInputs == {ROLE_OWNER, ROLE_ADMIN, ROLE_MEMBER, "guest"}

\* the community the model's requests address, and a second community that
\* exists from the start: its rows are what a request for the first one must
\* neither accept nor change
DynCommunity == "c1"
OtherCommunity == "c2"
AllCommunities == {DynCommunity, OtherCommunity}

\* a membership row is identified by its (community, user), unique together
\* (core/models.py:330)
MembershipIds == AllCommunities \X Users
NoMembership == <<"none", "none">>

HTTP_200_OK == 200
HTTP_204_NO_CONTENT == 204
HTTP_403_FORBIDDEN == 403

AbsentMember == [present |-> FALSE, role |-> ROLE_PARTICIPANT, is_active |-> FALSE]
Member(role, is_active) == [present |-> TRUE, role |-> role, is_active |-> is_active]

IdleCom ==
    [op |-> "", community |-> "", target |-> NoMembership, valid |-> FALSE, code |-> 0]

\* core/views.py:20-41: user_can_manage_community
user_can_manage_community(u, c) ==
    /\ members[<<c, u>>].present
    /\ members[<<c, u>>].is_active
    /\ members[<<c, u>>].role \in {ROLE_OWNER, ROLE_ADMIN, ROLE_ORGANIZER}

\* core/views.py:243-250: get_object_or_404(CommunityMembership, id=membership_id,
\* community=community)
MembershipOf(mid, c) == mid \in MembershipIds /\ mid[1] = c /\ members[mid].present

ComIdle(u) == cpc[u] \in {"idle", "done"}

\* the request `op` of user u for community c and membership `target`
\* returns status `code`
ComRespond(u, op, c, target, code) ==
    /\ cpc' = [cpc EXCEPT ![u] = "done"]
    /\ ccur' = [ccur EXCEPT ![u] =
                   [op |-> op, community |-> c, target |-> target,
                    valid |-> ccur[u].valid /\ ccur[u].op = op /\ ~ComIdle(u),
                    code |-> code]]

\* events/views/communities.py:35-40: CommunityListCreateView.post saves the community
CreateCommunity(u) ==
    /\ ComIdle(u)
    /\ DynCommunity \notin communities
    /\ communities' = communities \cup {DynCommunity}
    /\ cpc' = [cpc EXCEPT ![u] = "create_owner"]
    /\ ccur' = [ccur EXCEPT ![u] = [IdleCom EXCEPT !.op = "create", !.community = DynCommunity]]
    /\ UNCHANGED <<members, repVars, evtVars, regVars, polVars, txVars, extVars>>

\* events/views/communities.py:42-52: ... and then creates the owner membership
CreateOwnerMembership(u) ==
    /\ cpc[u] = "create_owner"
    /\ members' = [members EXCEPT ![<<ccur[u].community, u>>] = Member(ROLE_OWNER, TRUE)]
    /\ cpc' = [cpc EXCEPT ![u] = "done"]
    /\ ccur' = [ccur EXCEPT ![u].code = HTTP_201_CREATED]
    /\ UNCHANGED <<communities, repVars, evtVars, regVars, polVars, txVars, extVars>>

\* events/views/communities.py:96-132: AddCommunityMemberView.post
AddCommunityMember(u, c, target_user, role) ==
    /\ ComIdle(u)
    /\ IF c \notin communities
       THEN /\ ComRespond(u, "add", c, <<c, target_user>>, HTTP_404_NOT_FOUND)
            /\ UNCHANGED members
       ELSE IF ~(/\ members[<<c, u>>].present
                 /\ members[<<c, u>>].role = ROLE_OWNER
                 /\ members[<<c, u>>].is_active)
       THEN /\ ComRespond(u, "add", c, <<c, target_user>>, HTTP_403_FORBIDDEN)
            /\ UNCHANGED members
       ELSE IF role \notin ROLE_CHOICES
       THEN /\ ComRespond(u, "add", c, <<c, target_user>>, HTTP_400_BAD_REQUEST)
            /\ UNCHANGED members
       ELSE /\ members' = [members EXCEPT ![<<c, target_user>>] = Member(role, TRUE)]
            /\ ComRespond(u, "add", c, <<c, target_user>>,
                          IF members[<<c, target_user>>].present
                          THEN HTTP_200_OK ELSE HTTP_201_CREATED)
    /\ UNCHANGED <<communities, repVars, evtVars, regVars, polVars, txVars, extVars>>

\* core/views.py:252-287: CommunityMemberDetailView.patch
PatchMember(u, c, mid, new_role) ==
    /\ ComIdle(u)
    /\ IF c \notin communities \/ ~MembershipOf(mid, c)
       THEN /\ ComRespond(u, "patch", c, mid, HTTP_404_NOT_FOUND)
            /\ UNCHANGED members
       ELSE IF ~user_can_manage_community(u, c)
       THEN /\ ComRespond(u, "patch", c, mid, HTTP_403_FORBIDDEN)
            /\ UNCHANGED members
       ELSE IF \/ members[mid].role = ROLE_OWNER
               \/ new_role \notin ROLE_CHOICES
               \/ new_role = ROLE_OWNER
       THEN /\ ComRespond(u, "patch", c, mid, HTTP_400_BAD_REQUEST)
            /\ UNCHANGED members
       ELSE /\ members' = [members EXCEPT ![mid].role = new_role]
            /\ ComRespond(u, "patch", c, mid, HTTP_200_OK)
    /\ UNCHANGED <<communities, repVars, evtVars, regVars, polVars, txVars, extVars>>

\* core/views.py:289-308: CommunityMemberDetailView.delete
DeleteMember(u, c, mid) ==
    /\ ComIdle(u)
    /\ IF c \notin communities \/ ~MembershipOf(mid, c)
       THEN /\ ComRespond(u, "delete", c, mid, HTTP_404_NOT_FOUND)
            /\ UNCHANGED members
       ELSE IF ~user_can_manage_community(u, c)
       THEN /\ ComRespond(u, "delete", c, mid, HTTP_403_FORBIDDEN)
            /\ UNCHANGED members
       ELSE IF members[mid].role = ROLE_OWNER
       THEN /\ ComRespond(u, "delete", c, mid, HTTP_400_BAD_REQUEST)
            /\ UNCHANGED members
       ELSE /\ members' = [members EXCEPT ![mid].is_active = FALSE]
            /\ ComRespond(u, "delete", c, mid, HTTP_204_NO_CONTENT)
    /\ UNCHANGED <<communities, repVars, evtVars, regVars, polVars, txVars, extVars>>

\* what a transfer request must satisfy to be accepted: the caller is an
\* active owner of c, and the target is an active membership of c other than
\* the caller's
TransferAcceptable(u, c, target) ==
    /\ c \in communities
    /\ members[<<c, u>>].present
    /\ members[<<c, u>>].is_active
    /\ members[<<c, u>>].role = ROLE_OWNER
    /\ target \in MembershipIds
    /\ target[1] = c
    /\ members[target].present
    /\ members[target].is_active
    /\ target # <<c, u>>

\* core/views.py:316: a transfer request arrives; `valid` records whether it
\* satisfies the conditions of a transfer on arrival
TransferStart(u, c, target) ==
    /\ ComIdle(u)
    /\ cpc' = [cpc EXCEPT ![u] = "t_caller"]
    /\ ccur' = [ccur EXCEPT ![u] =
                   [op |-> "transfer", community |-> c, target |-> target,
                    valid |-> TransferAcceptable(u, c, target), code |-> 0]]
    /\ UNCHANGED <<communities, members, repVars, evtVars, regVars, polVars, txVars, extVars>>

\* core/views.py:317-336: the community and the caller's active membership
\* are read; the caller must be the current owner
TransferCaller(u) ==
    /\ cpc[u] = "t_caller"
    /\ LET c == ccur[u].community
           target == ccur[u].target
       IN IF c \notin communities
          THEN ComRespond(u, "transfer", c, target, HTTP_404_NOT_FOUND)
          ELSE IF ~(members[<<c, u>>].present /\ members[<<c, u>>].is_active)
          THEN ComRespond(u, "transfer", c, target, HTTP_403_FORBIDDEN)
          ELSE IF members[<<c, u>>].role # ROLE_OWNER
          THEN ComRespond(u, "transfer", c, target, HTTP_403_FORBIDDEN)
          ELSE /\ cpc' = [cpc EXCEPT ![u] = "t_target"]
               /\ UNCHANGED ccur
    /\ UNCHANGED <<communities, members, repVars, evtVars, regVars, polVars, txVars, extVars>>

\* variant of TargetFound: the target is looked up without is_active=True
TargetFoundAnyState(target, c) ==
    /\ target \in MembershipIds
    /\ target[1] = c
    /\ members[target].present

\* core/views.py:345-350: CommunityMembership.objects.get(id=new_owner_membership_id,
\* community=community, is_active=True)
TargetFound(target, c) ==
    /\ target \in MembershipIds
    /\ target[1] = c
    /\ members[target].present
    /\ members[target].is_active

\* core/views.py:338-362: the target membership is read and checked
TransferTarget(u) ==
    /\ cpc[u] = "t_target"
    /\ LET c == ccur[u].community
           target == ccur[u].target
       IN IF target = NoMembership
          THEN ComRespond(u, "transfer", c, target, HTTP_400_BAD_REQUEST)
          ELSE IF ~TargetFound(target, c)
          THEN ComRespond(u, "transfer", c, target, HTTP_400_BAD_REQUEST)
          ELSE IF target = <<c, u>>
          THEN ComRespond(u, "transfer", c, target, HTTP_400_BAD_REQUEST)
          ELSE /\ cpc' = [cpc EXCEPT ![u] = "t_save_old"]
               /\ UNCHANGED ccur
    /\ UNCHANGED <<communities, members, repVars, evtVars, regVars, polVars, txVars, extVars>>

\* core/views.py:367, 370: current_owner_membership.save(update_fields=["role"])
TransferSaveOld(u) ==
    /\ cpc[u] = "t_save_old"
    /\ members' = [members EXCEPT ![<<ccur[u].community, u>>].role = ROLE_ADMIN]
    /\ cpc' = [cpc EXCEPT ![u] = "t_save_new"]
    /\ UNCHANGED <<ccur, communities, repVars, evtVars, regVars, polVars, txVars, extVars>>

\* core/views.py:368, 371-381: new_owner_membership.save(update_fields=["role"]), 200
TransferSaveNew(u) ==
    /\ cpc[u] = "t_save_new"
    /\ members' = [members EXCEPT ![ccur[u].target].role = ROLE_OWNER]
    /\ cpc' = [cpc EXCEPT ![u] = "done"]
    /\ ccur' = [ccur EXCEPT ![u].code = HTTP_200_OK]
    /\ UNCHANGED <<communities, repVars, evtVars, regVars, polVars, txVars, extVars>>

\* the owner of the second community
OtherOwner == "u2"

InitCom ==
    /\ communities = {OtherCommunity}
    /\ members = [m \in MembershipIds |->
                     IF m = <<OtherCommunity, OtherOwner>>
                     THEN Member(ROLE_OWNER, TRUE) ELSE AbsentMember]
    /\ cpc = [u \in Users |-> "idle"]
    /\ ccur = [u \in Users |-> IdleCom]

QuietCom == InitCom

\* no other user has a community request in progress
OthersIdle(u) == \A v \in Users \ {u} : ComIdle(v)

\* ------------------------------------------------------------------------
\* events/policies.py: EventPolicy
\* ------------------------------------------------------------------------
\* users/models.py:6-10
USER_ROLE_CHOICES == {"student", "organizer", "admin"}

\* events/models.py:477-485
ROLE_HOST == "host"
ROLE_CO_HOST == "co_host"
ROLE_VOLUNTEER == "volunteer"
TEAM_ROLE_CHOICES == {ROLE_HOST, ROLE_CO_HOST, ROLE_VOLUNTEER}

\* policies.py:16-20
ELEVATED_COMMUNITY_ROLES == {ROLE_OWNER, ROLE_ADMIN, ROLE_ORGANIZER}

\* variant of EVENT_TEAM_MANAGEMENT_ROLES: the host alone
EVENT_TEAM_MANAGEMENT_ROLES_HostOnly == {ROLE_HOST}

\* policies.py:22-25
EVENT_TEAM_MANAGEMENT_ROLES == {ROLE_HOST, ROLE_CO_HOST}

\* request.user of a request without credentials (AnonymousUser)
AnonymousUser == [is_authenticated |-> FALSE, is_superuser |-> FALSE, role |-> "student"]
\* a row of users_user
Account(is_superuser, role) ==
    [is_authenticated |-> TRUE, is_superuser |-> is_superuser, role |-> role]

AbsentTeamMember == [present |-> FALSE, role |-> ROLE_VOLUNTEER, is_active |-> FALSE]
TeamMember(role, is_active) == [present |-> TRUE, role |-> role, is_active |-> is_active]

\* CommunityMembership.objects.filter(user=u, community=c, role__in=roles,
\* is_active=True).exists()
ActiveMembership(u, c, roles) ==
    /\ <<c, u>> \in MembershipIds
    /\ members[<<c, u>>].present
    /\ members[<<c, u>>].is_active
    /\ members[<<c, u>>].role \in roles

\* EventTeamMember.objects.filter(event=e, user=u, role__in=roles,
\* is_active=True).exists()
ActiveTeamMember(u, e, roles) ==
    /\ team[<<e, u>>].present
    /\ team[<<e, u>>].is_active
    /\ team[<<e, u>>].role \in roles

\* policies.py:34-39
is_system_admin(u) ==
    /\ account[u].is_authenticated
    /\ (account[u].is_superuser \/ account[u].role = "admin")

\* variant of is_community_elevated: is_active is not part of the filter
is_community_elevated_AnyState(u, c) ==
    /\ account[u].is_authenticated
    /\ c # NoCommunity
    /\ <<c, u>> \in MembershipIds
    /\ members[<<c, u>>].present
    /\ members[<<c, u>>].role \in ELEVATED_COMMUNITY_ROLES

\* policies.py:41-52
is_community_elevated(u, c) ==
    /\ account[u].is_authenticated
    /\ c # NoCommunity
    /\ ActiveMembership(u, c, ELEVATED_COMMUNITY_ROLES)

\* policies.py:54-65
is_event_team_manager(u, e) ==
    /\ account[u].is_authenticated
    /\ ActiveTeamMember(u, e, EVENT_TEAM_MANAGEMENT_ROLES)

\* policies.py:67-72
is_event_organizer(u, e) ==
    /\ account[u].is_authenticated
    /\ evOrganizer[e] = u

\* the pair (bool, reason) a check returns
Allow == [allowed |-> TRUE, reason |-> ""]
Deny(reason) == [allowed |-> FALSE, reason |-> reason]

\* policies.py:78-93
can_create_event(u, c) ==
    IF ~account[u].is_authenticated THEN Deny("Authentication required")
    ELSE IF is_system_admin(u) THEN Allow
    ELSE IF c = NoCommunity THEN Deny("Community required for event creation")
    ELSE IF is_community_elevated(u, c) THEN Allow
    ELSE Deny("You do not have permission to create events in this community")

\* policies.py:95-113
can_edit_event(u, e) ==
    IF ~account[u].is_authenticated THEN Deny("Authentication required")
    ELSE IF is_system_admin(u) THEN Allow
    ELSE IF is_event_organizer(u, e) THEN Allow
    ELSE IF is_event_team_manager(u, e) THEN Allow
    ELSE IF evCommunity[e] # NoCommunity /\ is_community_elevated(u, evCommunity[e]) THEN Allow
    ELSE Deny("You do not have permission to edit this event")

\* policies.py:115-138
can_delete_event(u, e) ==
    IF ~account[u].is_authenticated THEN Deny("Authentication required")
    ELSE IF is_system_admin(u) THEN Allow
    ELSE IF is_event_organizer(u, e) THEN Allow
    ELSE IF /\ evCommunity[e] # NoCommunity
            /\ ActiveMembership(u, evCommunity[e], {ROLE_OWNER, ROLE_ADMIN})
    THEN Allow
    ELSE Deny("You do not have permission to delete this event")

\* policies.py:140-160
can_approve_event(u, e) ==
    IF ~account[u].is_authenticated THEN Deny("Authentication required")
    ELSE IF is_system_admin(u) THEN Allow
    ELSE IF /\ evCommunity[e] # NoCommunity
            /\ ActiveMembership(u, evCommunity[e], {ROLE_OWNER, ROLE_ADMIN})
    THEN Allow
    ELSE Deny("You do not have permission to approve/reject this event")

\* policies.py:166-179
can_register(u, e) ==
    IF ~account[u].is_authenticated THEN Deny("Authentication required")
    ELSE IF evStatus[e] # STATUS_APPROVED THEN Deny("Event is not open for registration")
    ELSE IF Registered(e, u) THEN Deny("Already registered")
    ELSE Allow

\* policies.py:181-196, for the registration of user `owner` for event e
can_cancel_registration(u, e, owner) ==
    IF ~account[u].is_authenticated THEN Deny("Authentication required")
    ELSE IF owner = u THEN Allow
    ELSE IF can_edit_event(u, e).allowed THEN Allow
    ELSE Deny("You cannot cancel this registration")

\* policies.py:198-201
can_manage_registrations(u, e) == can_edit_event(u, e)

\* policies.py:207-230
can_scan_attendance(u, e) ==
    IF ~account[u].is_authenticated THEN Deny("Authentication required")
    ELSE IF is_system_admin(u) THEN Allow
    ELSE IF is_event_organizer(u, e) THEN Allow
    ELSE IF ActiveTeamMember(u, e, TEAM_ROLE_CHOICES) THEN Allow
    ELSE IF evCommunity[e] # NoCommunity /\ is_community_elevated(u, evCommunity[e]) THEN Allow
    ELSE Deny("You do not have permission to scan attendance for this event")

\* policies.py:236-247
can_issue_certificate(u, e) ==
    IF ~account[u].is_authenticated THEN Deny("Authentication required")
    ELSE IF ~can_edit_event(u, e).allowed THEN Deny(can_edit_event(u, e).reason)
    ELSE Allow

\* policies.py:253-256
can_view_analytics(u, e) == can_edit_event(u, e)

\* policies.py:258-278
can_view_organizer_analytics(u, c) ==
    IF ~account[u].is_authenticated THEN Deny("Authentication required")
    ELSE IF is_system_admin(u) THEN Allow
    ELSE IF c # NoCommunity /\ is_community_elevated(u, c) THEN Allow
    ELSE IF \E d \in AllCommunities : ActiveMembership(u, d, ELEVATED_COMMUNITY_ROLES) THEN Allow
    ELSE Deny("You do not have permission to view organizer analytics")

\* policies.py:284-287
can_create_announcement(u, e) == can_edit_event(u, e)

\* policies.py:289-312
can_submit_feedback(u, e) ==
    IF ~account[u].is_authenticated THEN Deny("Authentication required")
    ELSE IF ~Registered(e, u) THEN Deny("You must be registered to submit feedback")
    ELSE IF <<e, u>> \in attendance /\ <<e, u>> \in checkIn THEN Allow
    ELSE IF <<e, u>> \in regAttended THEN Allow
    ELSE Deny("You must attend the event to submit feedback")

\* policies.py:318-342
can_manage_team(u, e) ==
    IF ~account[u].is_authenticated THEN Deny("Authentication required")
    ELSE IF is_system_admin(u) THEN Allow
    ELSE IF is_event_organizer(u, e) THEN Allow
    ELSE IF ActiveTeamMember(u, e, {ROLE_HOST}) THEN Allow
    ELSE IF evCommunity[e] # NoCommunity /\ is_community_elevated(u, evCommunity[e]) THEN Allow
    ELSE Deny("You do not have permission to manage the event team")

\* the users and the event the checks are called with
PolicyUsers == {"u1"}
PolicyEvent == 1
\* another user: organizer of the event, or owner of a registration
OtherUser == "u2"

NoVerdict ==
    [check |-> "", user |-> "", event |-> NoEvent, community |-> NoCommunity,
     owner |-> "", allowed |-> FALSE, reason |-> ""]

\* a caller evaluates the check `check` and gets `result`
PolicyCall(check, u, e, c, owner, result) ==
    /\ verdict' = [check |-> check, user |-> u, event |-> e, community |-> c,
                   owner |-> owner, allowed |-> result.allowed, reason |-> result.reason]
    /\ UNCHANGED <<account, evOrganizer, evCommunity, evDeleted, team, checkIn, checkOut, regAttended,
                   vresp, repVars, evtVars, regVars, comVars, txVars, extVars>>

\* a check of an event
EventCheck(check, u, e, result) == PolicyCall(check, u, e, evCommunity[e], "", result)

\* the rows a user may have
AccountRows ==
    {AnonymousUser} \cup {Account(su, r) : su \in BOOLEAN, r \in USER_ROLE_CHOICES}
MemberRows ==
    {AbsentMember} \cup {Member(r, a) : r \in ROLE_CHOICES, a \in BOOLEAN}
TeamRows ==
    {AbsentTeamMember} \cup {TeamMember(r, a) : r \in TEAM_ROLE_CHOICES, a \in BOOLEAN}

NoEventResponse ==
    [view |-> "", user |-> "", event |-> NoEvent, code |-> 0, error |-> "", log |-> ""]

\* no account, event owner, team or attendance row matters
QuietPol ==
    /\ account = [u \in Users |-> Account(FALSE, "student")]
    /\ evOrganizer = [e \in EventIds |-> OtherUser]
    /\ evCommunity = [e \in EventIds |-> NoCommunity]
    /\ evDeleted = {}
    /\ team = [k \in EventIds \X Users |-> AbsentTeamMember]
    /\ checkIn = {}
    /\ checkOut = {}
    /\ regAttended = {}
    /\ verdict = NoVerdict
    /\ vresp = NoEventResponse

\* no log_activity call is modelled
QuietTx == txState = [id \in ActivityIds |-> "committed"]

\* ------------------------------------------------------------------------
\* events/views/events.py, events/views/scan.py, events/views/generics.py
\* ------------------------------------------------------------------------
\* events/models.py:250-254
ACTION_CHECK_IN == "check_in"
ACTION_INVALID_QR == "invalid_qr"
ACTION_UNAUTHORIZED == "unauthorized"
ACTION_ALREADY_COMPLETED == "already_completed"
\* the request writes no ScanLog row
NoScanLog == ""

\* request.data has no 'status' key
NoStatus == ""

\* Event.objects.get(pk=e) finds the row
EventExists(e) == e \in EventIds \ evDeleted

\* generics.py:96-108
user_is_system_admin(u) ==
    /\ account[u].is_authenticated
    /\ (account[u].is_superuser \/ account[u].role \in {"organizer", "admin"})

\* generics.py:111-150
user_can_edit_event(u, e) ==
    /\ account[u].is_authenticated
    /\ \/ evOrganizer[e] = u
       \/ user_is_system_admin(u)
       \/ /\ evCommunity[e] # NoCommunity
          /\ ActiveMembership(u, evCommunity[e], {ROLE_OWNER, ROLE_ADMIN, ROLE_ORGANIZER})
       \/ ActiveTeamMember(u, e, {ROLE_HOST, ROLE_CO_HOST})

\* the response of an event view and the ScanLog row the request wrote
EventResponse(view, u, e, code, error, log) ==
    [view |-> view, user |-> u, event |-> e, code |-> code, error |-> error, log |-> log]

\* events.py:278-287: EventDetailView.delete; the rows that reference the
\* event are deleted with it (on_delete=CASCADE)
EventDetailView_delete(u, e) ==
    /\ account[u].is_authenticated
    /\ LET found == EventExists(e)
           allowed == found /\ user_can_edit_event(u, e)
       IN /\ vresp' = EventResponse("EventDetailView.delete", u, e,
                                    IF ~found THEN HTTP_404_NOT_FOUND
                                    ELSE IF ~allowed THEN HTTP_403_FORBIDDEN
                                    ELSE HTTP_200_OK,
                                    IF ~found THEN "Event not found"
                                    ELSE IF ~allowed
                                    THEN "You do not have permission to delete this event."
                                    ELSE "", NoScanLog)
          /\ evDeleted' = IF allowed THEN evDeleted \cup {e} ELSE evDeleted
          /\ regs' = IF allowed THEN regs \ RegsOf(e) ELSE regs
          /\ attendance' = IF allowed THEN {k \in attendance : k[1] # e} ELSE attendance
          /\ checkIn' = IF allowed THEN {k \in checkIn : k[1] # e} ELSE checkIn
          /\ checkOut' = IF allowed THEN {k \in checkOut : k[1] # e} ELSE checkOut
          /\ regAttended' = IF allowed THEN {k \in regAttended : k[1] # e} ELSE regAttended
          /\ team' = IF allowed
                     THEN [k \in DOMAIN team |-> IF k[1] = e THEN AbsentTeamMember ELSE team[k]]
                     ELSE team
    /\ UNCHANGED <<account, evOrganizer, evCommunity, verdict, evCapacity, evLock, rpc, rcur,
                   nreq, repVars, evtVars, comVars, txVars, extVars>>

\* events.py:263-276: EventDetailView.put with request.data = {'status':
\* data_status}, or without a status key; EventSerializer lists status among
\* its writable fields (serializers.py:96-138)
EventDetailView_put(u, e, data_status) ==
    /\ account[u].is_authenticated
    /\ IF ~EventExists(e)
       THEN /\ vresp' = EventResponse("EventDetailView.put", u, e, HTTP_404_NOT_FOUND,
                                      "Event not found", NoScanLog)
            /\ UNCHANGED evStatus
       ELSE IF ~user_can_edit_event(u, e)
       THEN /\ vresp' = EventResponse("EventDetailView.put", u, e, HTTP_403_FORBIDDEN,
                                      "You do not have permission to edit this event.",
                                      NoScanLog)
            /\ UNCHANGED evStatus
       ELSE IF data_status \notin STATUS_CHOICES \cup {NoStatus}
       THEN /\ vresp' = EventResponse("EventDetailView.put", u, e, HTTP_400_BAD_REQUEST,
                                      "status", NoScanLog)
            /\ UNCHANGED evStatus
       ELSE /\ vresp' = EventResponse("EventDetailView.put", u, e, HTTP_200_OK, "", NoScanLog)
            /\ evStatus' = IF data_status = NoStatus THEN evStatus
                           ELSE [evStatus EXCEPT ![e] = data_status]
    /\ UNCHANGED <<account, evOrganizer, evCommunity, evDeleted, team, checkIn, checkOut, regAttended,
                   verdict, trResult, repVars, regVars, comVars, txVars, extVars>>

\* events.py:186-228: EventApprovalView.post
EventApprovalView_post(u, e, action, requested_status) ==
    /\ account[u].is_authenticated
    /\ LET view == "EventApprovalView.post"
           can_manage ==
               \/ user_is_system_admin(u)
               \/ /\ evCommunity[e] # NoCommunity
                  /\ ActiveMembership(u, evCommunity[e], {ROLE_OWNER, ROLE_ADMIN})
           new_status ==
               IF requested_status \in {STATUS_APPROVED, STATUS_REJECTED, STATUS_PENDING}
               THEN requested_status
               ELSE IF action = "approve" THEN STATUS_APPROVED ELSE STATUS_REJECTED
       IN IF ~EventExists(e)
          THEN /\ vresp' = EventResponse(view, u, e, HTTP_404_NOT_FOUND, "Event not found",
                                         NoScanLog)
               /\ UNCHANGED evStatus
          ELSE IF ~user_is_system_admin(u) /\ evCommunity[e] = NoCommunity
          THEN /\ vresp' = EventResponse(view, u, e, HTTP_400_BAD_REQUEST,
                                         "Event has no community", NoScanLog)
               /\ UNCHANGED evStatus
          ELSE IF ~can_manage
          THEN /\ vresp' = EventResponse(view, u, e, HTTP_403_FORBIDDEN, "Not allowed", NoScanLog)
               /\ UNCHANGED evStatus
          ELSE IF action \notin {"approve", "reject"}
          THEN /\ vresp' = EventResponse(view, u, e, HTTP_400_BAD_REQUEST, "Invalid action",
                                         NoScanLog)
               /\ UNCHANGED evStatus
          ELSE /\ vresp' = EventResponse(view, u, e, HTTP_200_OK, "", NoScanLog)
               /\ evStatus' = [evStatus EXCEPT ![e] = new_status]
    /\ UNCHANGED <<account, evOrganizer, evCommunity, evDeleted, team, checkIn, checkOut, regAttended,
                   verdict, trResult, repVars, regVars, comVars, txVars, extVars>>

\* scan.py:85-111: can_scan, an if / elif chain
ScannerAllowed(u, e) ==
    IF evOrganizer[e] = u THEN TRUE
    ELSE IF ActiveTeamMember(u, e, TEAM_ROLE_CHOICES) THEN TRUE
    ELSE IF evCommunity[e] # NoCommunity
    THEN ActiveMembership(u, evCommunity[e], {ROLE_ADMIN, ROLE_OWNER, ROLE_ORGANIZER})
    ELSE account[u].is_superuser

\* scan.py:29-189: ScanQRView.post; qr is the qr_code of the attendance row
\* of registration <<event, attendee>>, in_window is whether now lies between
\* start_time - 1h and end_time + 4h. The certificate task the check-in
\* schedules runs outside the request.
ScanQRView_post(u, qr, in_window) ==
    /\ account[u].is_authenticated
    /\ LET view == "ScanQRView.post"
           e == qr[1]
       IN IF qr \notin attendance
          THEN /\ vresp' = EventResponse(view, u, NoEvent, HTTP_404_NOT_FOUND, "Invalid QR code",
                                         ACTION_INVALID_QR)
               /\ UNCHANGED checkIn
          ELSE IF ~in_window
          THEN /\ vresp' = EventResponse(view, u, e, HTTP_403_FORBIDDEN,
                                         "Scanning allowed only during event hours.",
                                         ACTION_UNAUTHORIZED)
               /\ UNCHANGED checkIn
          ELSE IF ~ScannerAllowed(u, e)
          THEN /\ vresp' = EventResponse(view, u, e, HTTP_403_FORBIDDEN,
                                         "Not authorized to scan for this event.",
                                         ACTION_UNAUTHORIZED)
               /\ UNCHANGED checkIn
          ELSE IF qr \notin checkIn
          THEN /\ vresp' = EventResponse(view, u, e, HTTP_200_OK, "", ACTION_CHECK_IN)
               /\ checkIn' = checkIn \cup {qr}
          ELSE /\ vresp' = EventResponse(view, u, e, HTTP_200_OK, "", ACTION_ALREADY_COMPLETED)
               /\ UNCHANGED checkIn
    /\ UNCHANGED <<account, evOrganizer, evCommunity, evDeleted, team, checkOut, regAttended,
                   verdict, repVars, evtVars, regVars, comVars, txVars, extVars>>

\* ------------------------------------------------------------------------
\* core/services.py: ActivityService.log_activity
\* ------------------------------------------------------------------------
\* txState[id] is the state of the transaction that writes activity row id:
\* "none" before log_activity is called, "open" while the row is written but
\* not committed, then "committed" or "rolled_back"

\* variant of on_commit_due: the callback is due as soon as it is registered
on_commit_due_AtCall(id) == txState[id] \in {"open", "committed"}

\* services.py:28: when Django runs the callback given to
\* transaction.on_commit (after the COMMIT of the outermost atomic block, or
\* at once when no transaction is open)
on_commit_due(id) == txState[id] = "committed"

\* services.py:8-30: log_activity writes the row and registers the callback;
\* in_atomic says whether the caller is inside transaction.atomic() (as the
\* post_save signal of a registration is, views/registrations.py:42-83) or
\* in autocommit mode, where the INSERT commits by itself
LogActivity(id, in_atomic) ==
    /\ txState[id] = "none"
    /\ txState' = [txState EXCEPT ![id] = IF in_atomic THEN "open" ELSE "committed"]
    /\ UNCHANGED <<repVars, evtVars, regVars, comVars, polVars, extVars>>

\* the enclosing atomic block ends without an exception: COMMIT
Commit(id) ==
    /\ txState[id] = "open"
    /\ txState' = [txState EXCEPT ![id] = "committed"]
    /\ UNCHANGED <<repVars, evtVars, regVars, comVars, polVars, extVars>>

\* the enclosing atomic block ends with an exception: ROLLBACK, the row is
\* gone and the registered callbacks are dropped
Rollback(id) ==
    /\ txState[id] = "open"
    /\ txState' = [txState EXCEPT ![id] = "rolled_back"]
    /\ UNCHANGED <<repVars, evtVars, regVars, comVars, polVars, extVars>>

\* services.py:28: the callback runs, once: ReputationEngine.process_activity
RunOnCommit(w, id) ==
    /\ on_commit_due(id)
    /\ calls[id] = 0
    /\ Begin(w, id)

\* ------------------------------------------------------------------------
\* events/datetime_utils.py, events/state_machine.py: actions by status
\* ------------------------------------------------------------------------
\* the last instant of the clock
MaxTime == 2
Times == 0..MaxTime

\* datetime_utils.py:22-26; start_time is a DateTimeField without null
is_event_upcoming(e) == evStart[e] > clock

\* variant of is_event_past: an event that ends now has ended
is_event_past_OrNow(e) == evEnd[e] <= clock

\* datetime_utils.py:37-41; end_time is a DateTimeField without null
is_event_past(e) == evEnd[e] < clock

\* the actions a caller may name; the last is none the function knows
ValidatedActions == {"register", "edit", "cancel", "scan_attendance", "issue_certificate",
                     "archive"}

\* state_machine.py:102-143: (allowed, reason)
validate_action_for_status(e, action) ==
    LET status == evStatus[e]
    IN IF action = "register"
       THEN IF status # STATUS_APPROVED
            THEN Deny("Registration is only open for approved events")
            ELSE Allow
       ELSE IF action = "edit"
       THEN Allow
       ELSE IF action = "cancel"
       THEN IF ~is_event_upcoming(e)
            THEN Deny("Cannot cancel an event that has already started")
            ELSE Allow
       ELSE IF action = "scan_attendance"
       THEN IF status # STATUS_APPROVED
            THEN Deny("Attendance can only be scanned for approved events")
            ELSE Allow
       ELSE IF action = "issue_certificate"
       THEN IF status # STATUS_APPROVED
            THEN Deny("Certificates can only be issued for approved events")
            ELSE IF ~is_event_past(e)
            THEN Deny("Certificates can only be issued after the event has ended")
            ELSE Allow
       ELSE Allow

NoValidation ==
    [event |-> NoEvent, action |-> "", status |-> "", start_time |-> 0, end_time |-> 0,
     now |-> 0, allowed |-> FALSE, reason |-> ""]

\* a caller invokes validate_action_for_status on the event loaded from row e
ValidateAction(e, action) ==
    /\ validated' = [event |-> e, action |-> action, status |-> evStatus[e],
                     start_time |-> evStart[e], end_time |-> evEnd[e], now |-> clock,
                     allowed |-> validate_action_for_status(e, action).allowed,
                     reason |-> validate_action_for_status(e, action).reason]
    /\ UNCHANGED <<evStart, evEnd, clock>>
    /\ UNCHANGED <<repVars, evtVars, regVars, comVars, polVars, txVars, invVars, teamVars, sigVars>>

\* time passes
Tick ==
    /\ clock < MaxTime
    /\ clock' = clock + 1
    /\ UNCHANGED <<evStart, evEnd, validated>>
    /\ UNCHANGED <<repVars, evtVars, regVars, comVars, polVars, txVars, invVars, teamVars, sigVars>>

QuietTime ==
    /\ evStart = [e \in EventIds |-> 0]
    /\ evEnd = [e \in EventIds |-> 0]
    /\ clock = 0
    /\ validated = NoValidation


\* ------------------------------------------------------------------------
\* core/models.py: CommunityInvite; core/views.py: CommunityJoinByTokenView
\* ------------------------------------------------------------------------
\* the largest max_uses of the invite
MaxUses == 1
\* join requests per user
MaxJoins == 2

\* the token of the invite, and a token of no invite
InviteToken == "token"
Tokens == {InviteToken, "unknown"}

\* a CommunityInvite row; max_uses and expires_at are nullable
InviteRow(has_max_uses, max_uses, has_expires_at, expires_at) ==
    [role |-> ROLE_MEMBER, has_max_uses |-> has_max_uses, max_uses |-> max_uses,
     used_count |-> 0, has_expires_at |-> has_expires_at, expires_at |-> expires_at,
     is_active |-> TRUE]

\* core/models.py:408-421
is_valid_now(inv) ==
    IF ~inv.is_active THEN FALSE
    ELSE IF inv.has_expires_at /\ clock > inv.expires_at THEN FALSE
    ELSE IF inv.has_max_uses /\ inv.used_count >= inv.max_uses THEN FALSE
    ELSE TRUE

\* core/models.py:423-429: mark_used on the object inv, before its save
mark_used(inv) ==
    LET used_count == inv.used_count + 1
    IN [inv EXCEPT !.used_count = used_count,
                   !.is_active = IF inv.has_max_uses /\ used_count >= inv.max_uses
                                 THEN FALSE ELSE inv.is_active]

IdleJoin ==
    [obj |-> InviteRow(FALSE, 0, FALSE, 0), created |-> FALSE, code |-> 0, detail |-> "",
     already_member |-> FALSE, membership_role |-> ""]

\* core/views.py:183-186: the invite is loaded by its token and validated
JoinLoad(u, token) ==
    /\ jpc[u] \in {"idle", "done"}
    /\ njoin[u] < MaxJoins
    /\ njoin' = [njoin EXCEPT ![u] = @ + 1]
    /\ IF token # InviteToken
       THEN /\ jpc' = [jpc EXCEPT ![u] = "done"]
            /\ jcur' = [jcur EXCEPT ![u] = [IdleJoin EXCEPT !.code = HTTP_404_NOT_FOUND]]
       ELSE IF ~is_valid_now(invite)
       THEN /\ jpc' = [jpc EXCEPT ![u] = "done"]
            /\ jcur' = [jcur EXCEPT ![u] =
                           [IdleJoin EXCEPT !.obj = invite, !.code = HTTP_400_BAD_REQUEST,
                                            !.detail = "Invite is invalid or has expired."]]
       ELSE /\ jpc' = [jpc EXCEPT ![u] = "get_or_create"]
            /\ jcur' = [jcur EXCEPT ![u] = [IdleJoin EXCEPT !.obj = invite]]
    /\ UNCHANGED <<invite, joined, timeVars, teamVars, sigVars>>
    /\ UNCHANGED <<repVars, evtVars, regVars, comVars, polVars, txVars>>

\* core/views.py:191-195: CommunityMembership.objects.get_or_create
JoinGetOrCreate(u) ==
    /\ jpc[u] = "get_or_create"
    /\ LET k == <<OtherCommunity, u>>
           created == ~members[k].present
       IN /\ members' = IF created
                        THEN [members EXCEPT ![k] = Member(jcur[u].obj.role, TRUE)]
                        ELSE members
          /\ jcur' = [jcur EXCEPT ![u].created = created,
                                  ![u].membership_role = members'[k].role]
          /\ joined' = IF created THEN joined \cup {u} ELSE joined
    /\ jpc' = [jpc EXCEPT ![u] = "mark_used"]
    /\ UNCHANGED <<invite, njoin, timeVars, teamVars, sigVars>>
    /\ UNCHANGED <<communities, cpc, ccur, repVars, evtVars, regVars, polVars, txVars>>

\* core/views.py:200-211: invite.mark_used(save=True) writes used_count and
\* is_active of the loaded object (core/models.py:431-432), then the response
JoinMarkUsed(u) ==
    /\ jpc[u] = "mark_used"
    /\ LET obj == mark_used(jcur[u].obj)
       IN /\ invite' = [invite EXCEPT !.used_count = obj.used_count,
                                      !.is_active = obj.is_active]
          /\ jpc' = [jpc EXCEPT ![u] = "done"]
          /\ jcur' = [jcur EXCEPT ![u].obj = obj, ![u].code = HTTP_200_OK,
                         ![u].detail = IF jcur[u].created
                                       THEN "Joined community successfully."
                                       ELSE "Already a member of this community.",
                         ![u].already_member = ~jcur[u].created]
    /\ UNCHANGED <<njoin, joined, timeVars, teamVars, sigVars>>
    /\ UNCHANGED <<repVars, evtVars, regVars, comVars, polVars, txVars>>

\* core/views.py:176-212: CommunityJoinByTokenView.post
CommunityJoinByTokenView_post(u) ==
    \/ \E token \in Tokens : JoinLoad(u, token)
    \/ JoinGetOrCreate(u)
    \/ JoinMarkUsed(u)

QuietInv ==
    /\ invite = InviteRow(FALSE, 0, FALSE, 0)
    /\ jpc = [u \in Users |-> "idle"]
    /\ jcur = [u \in Users |-> IdleJoin]
    /\ njoin = [u \in Users |-> 0]
    /\ joined = {}


\* ------------------------------------------------------------------------
\* events/team_serializers.py, events/views/teams.py: join a participant team
\* ------------------------------------------------------------------------
\* EventTeam.max_size, its default
TEAM_MAX_SIZE == 4
\* the invite token of the team, and a token of no team
TeamToken == "team-token"
TeamTokens == {TeamToken, "unknown"}
\* the creator of the team, its first member (team_serializers.py:37-55)
TeamCreator == "a3"

\* events/models.py:426-432: is_full
is_full == Cardinality(pmembers) >= pteam.max_size

NoTeamResponse == [user |-> "", token |-> "", code |-> 0, error |-> ""]
TeamResponse(u, token, code, error) ==
    [user |-> u, token |-> token, code |-> code, error |-> error]

\* views/teams.py:53-81: EventTeamViewSet.join_team, with
\* TeamJoinSerializer.validate_invite_token (team_serializers.py:62-74) and
\* TeamJoinSerializer.save (team_serializers.py:76-105); the request is
\* taken as one step
join_team(u, token) ==
    LET e == pteam.event
    IN IF token # TeamToken
       THEN /\ tjresp' = TeamResponse(u, token, HTTP_400_BAD_REQUEST, "Invalid invite token")
            /\ UNCHANGED <<regs, pmembers>>
       ELSE IF pteam.is_locked
       THEN /\ tjresp' = TeamResponse(u, token, HTTP_400_BAD_REQUEST,
                                      "This team is no longer accepting members")
            /\ UNCHANGED <<regs, pmembers>>
       ELSE IF is_full
       THEN /\ tjresp' = TeamResponse(u, token, HTTP_400_BAD_REQUEST, "This team is full")
            /\ UNCHANGED <<regs, pmembers>>
       ELSE IF u \in pmembers
       THEN /\ tjresp' = TeamResponse(u, token, HTTP_400_BAD_REQUEST,
                                      "You are already a member of this team")
            /\ UNCHANGED <<regs, pmembers>>
       ELSE /\ regs' = IF Registered(e, u) THEN regs
                       ELSE regs \cup {[event |-> e, user |-> u, guests_count |-> 0]}
            /\ pmembers' = pmembers \cup {u}
            /\ tjresp' = TeamResponse(u, token, HTTP_201_CREATED, "")

JoinTeam(u, token) ==
    /\ join_team(u, token)
    /\ UNCHANGED <<pteam, evCapacity, attendance, evLock, rpc, rcur, nreq>>
    /\ UNCHANGED <<repVars, evtVars, comVars, polVars, txVars, timeVars, invVars, sigVars>>

QuietTeam ==
    /\ pteam = [event |-> 1, max_size |-> TEAM_MAX_SIZE, is_locked |-> TRUE]
    /\ pmembers = {}
    /\ tjresp = NoTeamResponse


\* ------------------------------------------------------------------------
\* events/signals.py: cache_event_status, log_event_activity
\* ------------------------------------------------------------------------
\* saves per worker
MaxSaves == 1

EVENT_APPROVED == "event.approved"
EVENT_REJECTED == "event.rejected"
\* no log_activity call
NoVerb == ""
\* no entry of the cache for a pk: .pop(pk, None) returns None
NoCacheEntry == ""

IdleSave == [event |-> NoEvent, status |-> "", row_before |-> "", logged |-> NoVerb]

\* signals.py:23-31: pre_save of Event.save() on an instance of row e whose
\* status field holds `status`: the row's status is read and cached under
\* the pk
cache_event_status(w, e, status) ==
    /\ spc[w] \in {"idle", "done"}
    /\ nsave[w] < MaxSaves
    /\ nsave' = [nsave EXCEPT ![w] = @ + 1]
    /\ statusCache' = [statusCache EXCEPT ![e] = evStatus[e]]
    /\ spc' = [spc EXCEPT ![w] = "update"]
    /\ scur' = [scur EXCEPT ![w] = [IdleSave EXCEPT !.event = e, !.status = status]]
    /\ UNCHANGED <<evtVars, timeVars, invVars, teamVars>>
    /\ UNCHANGED <<repVars, regVars, comVars, polVars, txVars>>

\* Model.save: the UPDATE of the row between the two signals; row_before is
\* the status the UPDATE replaces
SaveUpdate(w) ==
    /\ spc[w] = "update"
    /\ LET e == scur[w].event
       IN /\ evStatus' = [evStatus EXCEPT ![e] = scur[w].status]
          /\ scur' = [scur EXCEPT ![w].row_before = evStatus[e]]
    /\ spc' = [spc EXCEPT ![w] = "post_save"]
    /\ UNCHANGED <<trResult, statusCache, nsave, timeVars, invVars, teamVars>>
    /\ UNCHANGED <<repVars, regVars, comVars, polVars, txVars>>

\* signals.py:47-69: the verb log_event_activity logs for an instance that
\* was not created, given what the cache returned
StatusChangeVerb(old_status, status) ==
    IF old_status # NoCacheEntry /\ old_status # status
    THEN IF status = STATUS_APPROVED THEN EVENT_APPROVED
         ELSE IF status = STATUS_REJECTED THEN EVENT_REJECTED
         ELSE NoVerb
    ELSE NoVerb

\* signals.py:34-71: post_save of the same save: the cache entry of the pk
\* is popped and compared with the instance's status
log_event_activity(w) ==
    /\ spc[w] = "post_save"
    /\ LET e == scur[w].event
           old_status == statusCache[e]
       IN /\ statusCache' = [statusCache EXCEPT ![e] = NoCacheEntry]
          /\ scur' = [scur EXCEPT ![w].logged = StatusChangeVerb(old_status, scur[w].status)]
    /\ spc' = [spc EXCEPT ![w] = "done"]
    /\ UNCHANGED <<evtVars, nsave, timeVars, invVars, teamVars>>
    /\ UNCHANGED <<repVars, regVars, comVars, polVars, txVars>>

\* Event.save() of an existing event by worker w
EventSave(w) ==
    \/ \E e \in EventIds, status \in STATUS_CHOICES : cache_event_status(w, e, status)
    \/ SaveUpdate(w)
    \/ log_event_activity(w)

QuietSig ==
    /\ statusCache = [e \in EventIds |-> NoCacheEntry]
    /\ spc = [w \in Workers |-> "idle"]
    /\ scur = [w \in Workers |-> IdleSave]
    /\ nsave = [w \in Workers |-> 0]

QuietExt == QuietTime /\ QuietInv /\ QuietTeam /\ QuietSig

\* ------------------------------------------------------------------------
\* Specifications
\* ------------------------------------------------------------------------
\* process_activity calls one after the other (a single caller)
InitSeq == InitRep /\ QuietEvt /\ QuietReg /\ QuietCom /\ QuietPol /\ QuietTx /\ QuietExt

NextSeq == process_activity("w1")

SpecSeq == InitSeq /\ [][NextSeq]_vars

\* process_activity calls of concurrent requests
NextRep == \E w \in Workers : process_activity(w)

SpecRep == InitSeq /\ [][NextRep]_vars

\* calls of the lifecycle state machine
InitLifecycle == QuietRep /\ InitEvt /\ QuietReg /\ QuietCom /\ QuietPol /\ QuietTx /\ QuietExt

NextLifecycle ==
    \E e \in EventIds, new_status \in STATUS_CHOICES \cup {UnknownStatus}, save \in BOOLEAN :
        Transition(e, new_status, save)

SpecLifecycle == InitLifecycle /\ [][NextLifecycle]_vars

\* calls of the lifecycle state machine on events that were all rejected
InitResubmit ==
    /\ QuietRep /\ QuietReg /\ QuietCom /\ QuietPol /\ QuietTx /\ QuietExt
    /\ evStatus = [e \in EventIds |-> STATUS_REJECTED]
    /\ trResult = NoTransition

SpecResubmit == InitResubmit /\ [][NextLifecycle]_vars

\* concurrent register requests
InitRegistration == QuietRep /\ QuietEvt /\ InitReg /\ QuietCom /\ QuietPol /\ QuietTx /\ QuietExt

NextRegistration == \E u \in Attendees : RegisterEventView_post(u)

SpecRegistration == InitRegistration /\ [][NextRegistration]_vars

\* community requests of concurrent users
InitCommunity == QuietRep /\ QuietEvt /\ QuietReg /\ InitCom /\ QuietPol /\ QuietTx /\ QuietExt

NextCommunity ==
    \E u \in Users :
        \/ CreateCommunity(u)
        \/ CreateOwnerMembership(u)
        \/ \E target_user \in Users, role \in RoleInputs :
              AddCommunityMember(u, DynCommunity, target_user, role)
        \/ \E mid \in MembershipIds, role \in RoleInputs : PatchMember(u, DynCommunity, mid, role)
        \/ \E mid \in MembershipIds : DeleteMember(u, DynCommunity, mid)
        \/ \E target \in MembershipIds \cup {NoMembership} : TransferStart(u, DynCommunity, target)
        \/ TransferCaller(u)
        \/ TransferTarget(u)
        \/ TransferSaveOld(u)
        \/ TransferSaveNew(u)

SpecCommunity == InitCommunity /\ [][NextCommunity]_vars

\* community requests one after the other
NextCommunitySeq ==
    \E u \in Users :
        \/ OthersIdle(u) /\ CreateCommunity(u)
        \/ OthersIdle(u) /\ CreateOwnerMembership(u)
        \/ \E target_user \in Users, role \in RoleInputs :
              OthersIdle(u) /\ AddCommunityMember(u, DynCommunity, target_user, role)
        \/ \E mid \in MembershipIds, role \in RoleInputs :
              OthersIdle(u) /\ PatchMember(u, DynCommunity, mid, role)
        \/ \E mid \in MembershipIds : OthersIdle(u) /\ DeleteMember(u, DynCommunity, mid)
        \/ \E target \in MembershipIds \cup {NoMembership} :
              OthersIdle(u) /\ TransferStart(u, DynCommunity, target)
        \/ OthersIdle(u) /\ TransferCaller(u)
        \/ OthersIdle(u) /\ TransferTarget(u)
        \/ OthersIdle(u) /\ TransferSaveOld(u)
        \/ OthersIdle(u) /\ TransferSaveNew(u)

SpecCommunitySeq == InitCommunity /\ [][NextCommunitySeq]_vars

\* the rows of user u and of the event the checks are called with
PolicyInputs(u, acc, m, t, org, registered, checked, attended) ==
    /\ account = [v \in Users |-> IF v = u THEN acc ELSE Account(FALSE, "student")]
    /\ members = [k \in MembershipIds |->
                     IF k = <<OtherCommunity, OtherOwner>> THEN Member(ROLE_OWNER, TRUE)
                     ELSE IF k = <<OtherCommunity, u>> THEN m
                     ELSE AbsentMember]
    /\ team = [k \in EventIds \X Users |->
                  IF k = <<PolicyEvent, u>> THEN t ELSE AbsentTeamMember]
    /\ evOrganizer = [e \in EventIds |-> IF e = PolicyEvent THEN org ELSE OtherUser]
    /\ regs = {[event |-> PolicyEvent, user |-> OtherUser, guests_count |-> 0]}
                \cup (IF registered
                      THEN {[event |-> PolicyEvent, user |-> u, guests_count |-> 0]}
                      ELSE {})
    /\ attendance = {<<PolicyEvent, OtherUser>>}
                       \cup (IF registered THEN {<<PolicyEvent, u>>} ELSE {})
    /\ checkIn = IF checked THEN {<<PolicyEvent, u>>} ELSE {}
    /\ checkOut = {}
    /\ regAttended = IF attended THEN {<<PolicyEvent, u>>} ELSE {}

\* the policy checks, called for every state of the user and of the event
InitPolicy ==
    /\ QuietRep /\ QuietTx /\ QuietExt
    /\ evStatus \in [EventIds -> STATUS_CHOICES]
    /\ \A e \in EventIds \ {PolicyEvent} : evStatus[e] = STATUS_APPROVED
    /\ trResult = NoTransition
    /\ evCapacity = [e \in EventIds |-> 0]
    /\ evLock = [e \in EventIds |-> NoHolder]
    /\ rpc = [u \in Attendees |-> "idle"]
    /\ rcur = [u \in Attendees |-> IdleReq]
    /\ nreq = [u \in Attendees |-> 0]
    /\ communities = {OtherCommunity}
    /\ cpc = [u \in Users |-> "idle"]
    /\ ccur = [u \in Users |-> IdleCom]
    /\ evCommunity \in [EventIds -> {OtherCommunity, NoCommunity}]
    /\ \A e \in EventIds \ {PolicyEvent} : evCommunity[e] = NoCommunity
    /\ evDeleted = {}
    /\ verdict = NoVerdict
    /\ vresp = NoEventResponse
    /\ \E u \in PolicyUsers :
          \/ PolicyInputs(u, AnonymousUser, AbsentMember, AbsentTeamMember, OtherUser,
                          FALSE, FALSE, FALSE)
          \/ \E acc \in AccountRows \ {AnonymousUser}, m \in MemberRows, t \in TeamRows,
                org \in {u, OtherUser}, registered, checked, attended \in BOOLEAN :
                /\ (checked \/ attended) => registered
                /\ PolicyInputs(u, acc, m, t, org, registered, checked, attended)

\* no check has been evaluated yet
FirstCall == verdict = NoVerdict

\* one check is evaluated in each behaviour: the checks change no row
NextPolicy ==
    \E u \in PolicyUsers :
        LET e == PolicyEvent
        IN \/ FirstCall /\ \E c \in {OtherCommunity, NoCommunity} :
                 PolicyCall("can_create_event", u, NoEvent, c, "", can_create_event(u, c))
           \/ FirstCall /\ EventCheck("can_edit_event", u, e, can_edit_event(u, e))
           \/ FirstCall /\ EventCheck("can_delete_event", u, e, can_delete_event(u, e))
           \/ FirstCall /\ EventCheck("can_approve_event", u, e, can_approve_event(u, e))
           \/ FirstCall /\ EventCheck("can_register", u, e, can_register(u, e))
           \/ FirstCall /\ \E owner \in {u, OtherUser} :
                 /\ Registered(e, owner)
                 /\ PolicyCall("can_cancel_registration", u, e, evCommunity[e], owner,
                               can_cancel_registration(u, e, owner))
           \/ FirstCall /\ EventCheck("can_manage_registrations", u, e,
                                      can_manage_registrations(u, e))
           \/ FirstCall /\ EventCheck("can_scan_attendance", u, e, can_scan_attendance(u, e))
           \/ FirstCall /\ EventCheck("can_issue_certificate", u, e, can_issue_certificate(u, e))
           \/ FirstCall /\ EventCheck("can_view_analytics", u, e, can_view_analytics(u, e))
           \/ FirstCall /\ \E c \in {OtherCommunity, NoCommunity} :
                 PolicyCall("can_view_organizer_analytics", u, NoEvent, c, "",
                            can_view_organizer_analytics(u, c))
           \/ FirstCall /\ EventCheck("can_create_announcement", u, e,
                                      can_create_announcement(u, e))
           \/ FirstCall /\ EventCheck("can_submit_feedback", u, e, can_submit_feedback(u, e))
           \/ FirstCall /\ EventCheck("can_manage_team", u, e, can_manage_team(u, e))

SpecPolicy == InitPolicy /\ [][NextPolicy]_vars

\* the attendee whose registration is scanned
ScannedAttendee == "a1"
\* the qr codes a scanner may send: of the attendance row, and of no row
QrCodes == {<<PolicyEvent, ScannedAttendee>>, <<NoEvent, ScannedAttendee>>}

\* requests of an authenticated user to the views of an event that waits for
\* approval and has one registration
InitEventViews ==
    /\ QuietRep /\ QuietTx /\ QuietExt
    /\ evStatus = [e \in EventIds |-> IF e = PolicyEvent THEN STATUS_PENDING
                                      ELSE STATUS_APPROVED]
    /\ trResult = NoTransition
    /\ evCapacity = [e \in EventIds |-> 0]
    /\ evLock = [e \in EventIds |-> NoHolder]
    /\ rpc = [u \in Attendees |-> "idle"]
    /\ rcur = [u \in Attendees |-> IdleReq]
    /\ nreq = [u \in Attendees |-> 0]
    /\ regs = {[event |-> PolicyEvent, user |-> ScannedAttendee, guests_count |-> 0]}
    /\ attendance = {<<PolicyEvent, ScannedAttendee>>}
    /\ checkIn = {}
    /\ checkOut = {}
    /\ regAttended = {}
    /\ communities = {OtherCommunity}
    /\ cpc = [u \in Users |-> "idle"]
    /\ ccur = [u \in Users |-> IdleCom]
    /\ evCommunity \in [EventIds -> {OtherCommunity, NoCommunity}]
    /\ \A e \in EventIds \ {PolicyEvent} : evCommunity[e] = NoCommunity
    /\ evDeleted = {}
    /\ verdict = NoVerdict
    /\ vresp = NoEventResponse
    /\ \E u \in PolicyUsers, acc \in AccountRows \ {AnonymousUser}, m \in MemberRows,
          t \in TeamRows, org \in Users :
          /\ account = [v \in Users |-> IF v = u THEN acc ELSE Account(FALSE, "student")]
          /\ members = [k \in MembershipIds |->
                           IF k = <<OtherCommunity, OtherOwner>> THEN Member(ROLE_OWNER, TRUE)
                           ELSE IF k = <<OtherCommunity, u>> THEN m
                           ELSE AbsentMember]
          /\ team = [k \in EventIds \X Users |->
                        IF k = <<PolicyEvent, u>> THEN t ELSE AbsentTeamMember]
          /\ evOrganizer = [e \in EventIds |-> IF e = PolicyEvent THEN org ELSE OtherUser]

NextEventViews ==
    \E u \in PolicyUsers :
        \/ EventDetailView_delete(u, PolicyEvent)
        \/ \E data_status \in STATUS_CHOICES \cup {NoStatus, UnknownStatus} :
              EventDetailView_put(u, PolicyEvent, data_status)
        \/ \E action \in {"approve", "reject", "publish"},
              requested_status \in {NoStatus, STATUS_PENDING, STATUS_DRAFT} :
              EventApprovalView_post(u, PolicyEvent, action, requested_status)
        \/ \E qr \in QrCodes, in_window \in BOOLEAN : ScanQRView_post(u, qr, in_window)

SpecEventViews == InitEventViews /\ [][NextEventViews]_vars

\* register requests for an event in any status
InitRegisterStatus ==
    /\ QuietRep /\ QuietCom /\ QuietPol /\ QuietTx /\ QuietExt
    /\ InitEvt
    /\ \A e \in EventIds \ RegTargets : evStatus[e] = STATUS_APPROVED
    /\ QuietReg

SpecRegisterStatus == InitRegisterStatus /\ [][NextRegistration]_vars

\* the user whose activities are logged
LoggedActor == "u1"

\* activities of one user logged by log_activity, inside and outside of
\* transactions
InitOnCommit ==
    /\ InitRep /\ QuietEvt /\ QuietReg /\ QuietCom /\ QuietPol /\ QuietExt
    /\ \A id \in ActivityIds : activity[id].actor = LoggedActor
    /\ txState = [id \in ActivityIds |-> "none"]

\* the callbacks run one after the other
NextOnCommit ==
    \/ \E id \in ActivityIds, in_atomic \in BOOLEAN : LogActivity(id, in_atomic)
    \/ \E id \in ActivityIds : Commit(id)
    \/ \E id \in ActivityIds : Rollback(id)
    \/ \E id \in ActivityIds : RunOnCommit("w1", id)
    \/ CheckAndLog("w1")
    \/ GetStats("w1")
    \/ CreateStats("w1")
    \/ SaveStats("w1")

SpecOnCommit == InitOnCommit /\ [][NextOnCommit]_vars

\* validate_action_for_status on an event of any status, start and end time
InitValidate ==
    /\ QuietRep /\ QuietReg /\ QuietCom /\ QuietPol /\ QuietTx /\ QuietInv /\ QuietTeam /\ QuietSig
    /\ evStatus \in [EventIds -> STATUS_CHOICES]
    /\ \A e \in EventIds \ {PolicyEvent} : evStatus[e] = STATUS_APPROVED
    /\ trResult = NoTransition
    /\ evStart \in [EventIds -> Times]
    /\ evEnd \in [EventIds -> Times]
    /\ \A e \in EventIds \ {PolicyEvent} : evStart[e] = 0 /\ evEnd[e] = 0
    /\ clock = 0
    /\ validated = NoValidation

NextValidate ==
    \/ \E action \in ValidatedActions : ValidateAction(PolicyEvent, action)
    \/ Tick

SpecValidate == InitValidate /\ [][NextValidate]_vars


\* join-by-token requests of the users for one invite of OtherCommunity;
\* each user is no member, an active owner or an inactive participant
InitInvite ==
    /\ QuietRep /\ QuietEvt /\ QuietReg /\ QuietPol /\ QuietTx /\ QuietTime /\ QuietTeam /\ QuietSig
    /\ communities = {OtherCommunity}
    /\ members \in [MembershipIds -> {AbsentMember, Member(ROLE_OWNER, TRUE),
                                      Member(ROLE_PARTICIPANT, FALSE)}]
    /\ \A k \in MembershipIds : k[1] # OtherCommunity => members[k] = AbsentMember
    /\ cpc = [u \in Users |-> "idle"]
    /\ ccur = [u \in Users |-> IdleCom]
    /\ \E has_max_uses \in BOOLEAN, max_uses \in 0..MaxUses, has_expires_at \in BOOLEAN :
          /\ ~has_max_uses => max_uses = 0
          /\ invite = InviteRow(has_max_uses, max_uses, has_expires_at, 0)
    /\ jpc = [u \in Users |-> "idle"]
    /\ jcur = [u \in Users |-> IdleJoin]
    /\ njoin = [u \in Users |-> 0]
    /\ joined = {}

NextInvite ==
    \/ \E u \in Users : CommunityJoinByTokenView_post(u)
    \/ Tick

SpecInvite == InitInvite /\ [][NextInvite]_vars

\* register requests of the attendees who are not in the team, and team
\* joins, for an event that has a participant team
InitTeamJoin ==
    /\ QuietRep /\ QuietEvt /\ InitReg /\ QuietCom /\ QuietPol /\ QuietTx
    /\ QuietTime /\ QuietInv /\ QuietSig
    /\ \E is_locked \in BOOLEAN :
          pteam = [event |-> 1, max_size |-> TEAM_MAX_SIZE, is_locked |-> is_locked]
    /\ pmembers = {TeamCreator}
    /\ tjresp = NoTeamResponse

NextTeamJoin ==
    \/ \E u \in Attendees \ {TeamCreator} : RegisterEventView_post(u)
    \/ \E u \in Attendees, token \in TeamTokens : JoinTeam(u, token)

SpecTeamJoin == InitTeamJoin /\ [][NextTeamJoin]_vars

\* saves of existing events by the threads of one process
InitSignals ==
    /\ QuietRep /\ QuietReg /\ QuietCom /\ QuietPol /\ QuietTx
    /\ QuietTime /\ QuietInv /\ QuietTeam /\ QuietSig
    /\ evStatus \in [EventIds -> STATUS_CHOICES]
    /\ trResult = NoTransition

NextSignals == \E w \in Workers : EventSave(w)

SpecSignals == InitSignals /\ [][NextSignals]_vars

\* ------------------------------------------------------------------------
\* Properties of the reputation engine
\* ------------------------------------------------------------------------
RECURSIVE SumAmounts(_, _)
\* the sum of `amount` over the rows `rows` of the bag b (with multiplicity)
SumAmounts(b, rows) ==
    IF rows = {} THEN 0
    ELSE LET e == CHOOSE x \in rows : TRUE
         IN e.amount * CopiesIn(e, b) + SumAmounts(b, rows \ {e})

\* sum of ReputationLog.amount for one (user, community) pair
LedgerSum(u, c) ==
    SumAmounts(ledger, {e \in BagToSet(ledger) : e.user = u /\ e.community = c})

RECURSIVE CountRows(_, _)
CountRows(b, rows) ==
    IF rows = {} THEN 0
    ELSE LET e == CHOOSE x \in rows : TRUE
         IN CopiesIn(e, b) + CountRows(b, rows \ {e})

\* number of ReputationLog rows that reference the activity
LedgerCount(id) == CountRows(ledger, {e \in BagToSet(ledger) : e.activity = id})

ReputationBearing(id) ==
    /\ ~PointsIsNone(activity[id])
    /\ activity[id].community # NoCommunity

AllIdle == \A w \in Workers : pc[w] = "idle"

\* C1: a process_activity call for an activity for which an earlier call has
\* already returned changes neither the stats rows (total_xp, current_level,
\* counters) nor the reputation ledger.
C1_SecondCallChangesNothing ==
    [][\A w \in Workers :
          (pc[w] # "idle" /\ calls[cur[w].act] >= 2)
              => (stats' = stats /\ ledger' = ledger)]_vars

\* C1 witness: the second call for a reputation-bearing activity with a
\* community has returned, and the activity has its ledger entry
C1_Witness ==
    \E id \in ActivityIds :
        /\ ReputationBearing(id)
        /\ calls[id] = 2
        /\ AllIdle
        /\ LedgerCount(id) = 1
        /\ stats[StatsKey(activity[id])].present

\* C2: after any sequence of process_activity calls, total_xp of every stats
\* row equals the sum of the ledger amounts of its (user, community) pair, and
\* a pair without a row has no ledger entry.
C2_TotalXpIsLedgerSum ==
    AllIdle =>
        \A u \in Users, c \in Communities :
            IF stats[<<u, c>>].present
            THEN stats[<<u, c>>].total_xp = LedgerSum(u, c)
            ELSE \A e \in BagToSet(ledger) : ~(e.user = u /\ e.community = c)

\* C2 witness: a pair with a penalty and an award in its ledger, after a
\* repeated call
C2_Witness ==
    /\ AllIdle
    /\ \E u \in Users, c \in Communities :
          /\ stats[<<u, c>>].present
          /\ \E e \in BagToSet(ledger) : e.user = u /\ e.community = c /\ e.amount < 0
          /\ \E e \in BagToSet(ledger) : e.user = u /\ e.community = c /\ e.amount > 0
          /\ \E id \in ActivityIds : calls[id] = 2 /\ StatsKey(activity[id]) = <<u, c>>

\* C3: with every activity processed at most once into the ledger (so the
\* concurrent calls were for distinct activities), once the calls have
\* returned total_xp equals the sum of all amounts awarded to the pair: no
\* concurrent update is lost.
C3_NoLostUpdate ==
    (AllIdle /\ \A id \in ActivityIds : LedgerCount(id) <= 1)
        => \A u \in Users, c \in Communities :
              stats[<<u, c>>].present => stats[<<u, c>>].total_xp = LedgerSum(u, c)

\* C4: at most one reputation ledger entry references any activity.
C4_OneEntryPerActivity ==
    \A id \in ActivityIds : LedgerCount(id) <= 1

\* C5: every stats row has current_level = 1 + max(0, total_xp) // 100, and
\* current_level >= 1, also for negative total_xp.
C5_LevelFormula ==
    \A k \in Users \X Communities :
        stats[k].present =>
            /\ stats[k].current_level >= 1
            /\ stats[k].current_level
                 = 1 + ((IF stats[k].total_xp > 0 THEN stats[k].total_xp ELSE 0) \div 100)

\* C5 witness: a row whose total_xp is negative
C5_Witness ==
    \E k \in Users \X Communities : stats[k].present /\ stats[k].total_xp < 0

\* ------------------------------------------------------------------------
\* Properties of the lifecycle state machine
\* ------------------------------------------------------------------------
\* C6: a transition() call from status `from` to a different status `to`
\* that is not in the transition table returns failure, and the event's
\* status (of the object and of the row) is still `from`.
C6_UnlistedTransitionRejected ==
    LET ListedTransitions ==
            {<<"draft", "pending">>, <<"draft", "approved">>,
             <<"pending", "approved">>, <<"pending", "rejected">>,
             <<"approved", "rejected">>, <<"approved", "pending">>,
             <<"rejected", "pending">>, <<"rejected", "draft">>}
    IN  (/\ trResult.event # 0
         /\ trResult.to # trResult.from
         /\ <<trResult.from, trResult.to>> \notin ListedTransitions)
            => /\ ~trResult.success
               /\ trResult.status = trResult.from
               /\ evStatus[trResult.event] = trResult.from

\* C6 witness: transition(event, "draft") on an approved event has failed
C6_Witness ==
    /\ trResult.event # 0
    /\ trResult.from = "approved"
    /\ trResult.to = "draft"
    /\ trResult.save
    /\ ~trResult.success
    /\ trResult.message = Message("Cannot transition from to", "approved", "draft")

\* ------------------------------------------------------------------------
\* Properties of registration
\* ------------------------------------------------------------------------
\* every attendee has sent exactly one request, for event e and without
\* guests, and all the requests have returned
OneRequestEach(e) ==
    \A u \in Attendees :
        /\ nreq[u] = 1
        /\ rpc[u] = "done"
        /\ rcur[u].event = e
        /\ rcur[u].guests = 0

\* C7: when n attendees each send one register request without guests for an
\* event of capacity c, 0 < c < n, that has no registrations, then in every
\* interleaving exactly c registrations are created (201) and the other
\* n - c requests are rejected with 400 'Event is full'.
C7_CapacityRace ==
    \A e \in EventIds :
        (OneRequestEach(e) /\ evCapacity[e] > 0 /\ Cardinality(Attendees) > evCapacity[e])
            => /\ Cardinality(RegsOf(e)) = evCapacity[e]
               /\ Cardinality({u \in Attendees : rcur[u].response.code = 201}) = evCapacity[e]
               /\ Cardinality({u \in Attendees :
                                  /\ rcur[u].response.code = 400
                                  /\ rcur[u].response.error = "Event is full. Only spots left."})
                    = Cardinality(Attendees) - evCapacity[e]

\* C7 witness: capacity 2 and three requests, two created and one refused
C7_Witness ==
    \E e \in EventIds :
        /\ OneRequestEach(e)
        /\ evCapacity[e] = 2
        /\ Cardinality(RegsOf(e)) = 2
        /\ \E u \in Attendees : rcur[u].response.code = 400

\* ------------------------------------------------------------------------
\* Properties of community ownership
\* ------------------------------------------------------------------------
\* the active memberships of community c that hold the owner role
ActiveOwners(c) ==
    {m \in MembershipIds :
        /\ m[1] = c
        /\ members[m].present
        /\ members[m].is_active
        /\ members[m].role = "owner"}

\* C8: the two role updates of an ownership transfer are one atomic change:
\* the step that makes the old owner admin also makes the target owner.
C8_TransferAtomic ==
    [][\A u \in Users :
          (cpc[u] = "t_save_old" /\ cpc'[u] # "t_save_old")
              => /\ members'[<<ccur[u].community, u>>].role = "admin"
                 /\ members'[ccur[u].target].role = "owner"]_vars

\* C9: a transfer request that on arrival does not satisfy the conditions
\* (caller an active owner of the community, target an active membership of
\* the same community, target not the caller's own membership) changes no
\* membership row and is refused: 403 or 400 (404 when there is no such
\* community).
C9_InvalidTransferRejected ==
    [][\A u \in Users :
          (/\ cpc[u] \notin {"idle", "done"}
           /\ ccur[u].op = "transfer"
           /\ ~ccur[u].valid)
              => /\ members' = members
                 /\ cpc'[u] \in {cpc[u], "done"} \/ cpc[u] = "t_caller"
                 /\ cpc'[u] \notin {"t_save_old", "t_save_new"}
                 /\ cpc'[u] = "done" =>
                       ccur'[u].code \in (IF ccur[u].community \in communities
                                          THEN {400, 403} ELSE {404})]_vars

\* C9 witness: a transfer by the owner to an inactive membership of the
\* community has been refused with 400
C9_Witness ==
    \E u \in Users :
        /\ cpc[u] = "done"
        /\ ccur[u].op = "transfer"
        /\ ccur[u].code = 400
        /\ ccur[u].target \in MembershipIds
        /\ ccur[u].target[1] = ccur[u].community
        /\ members[ccur[u].target].present
        /\ ~members[ccur[u].target].is_active
        /\ members[<<ccur[u].community, u>>].role = "owner"

\* C10: when no community request is in progress, every community has
\* exactly one active membership with role owner.
C10_ExactlyOneOwner ==
    (\A u \in Users : cpc[u] \in {"idle", "done"})
        => \A c \in communities : Cardinality(ActiveOwners(c)) = 1

\* ------------------------------------------------------------------------
\* Properties of the policy checks
\* ------------------------------------------------------------------------
\* the user is authenticated and no system admin, is not the organizer of
\* the event, has no membership in the event's community, and is an active
\* co_host of the event
OnlyCoHost(u, e) ==
    /\ account[u].is_authenticated
    /\ ~account[u].is_superuser
    /\ account[u].role # "admin"
    /\ evOrganizer[e] # u
    /\ evCommunity[e] # NoCommunity => ~members[<<evCommunity[e], u>>].present
    /\ team[<<e, u>>] = TeamMember(ROLE_CO_HOST, TRUE)

\* C11: for a user whose only role is an active co_host membership of the
\* event, can_edit_event allows, can_approve_event denies and can_manage_team
\* denies.
C11_CoHostEditsOnly ==
    (verdict.event # NoEvent /\ OnlyCoHost(verdict.user, verdict.event))
        => /\ verdict.check = "can_edit_event" => verdict.allowed
           /\ verdict.check = "can_approve_event" => ~verdict.allowed
           /\ verdict.check = "can_manage_team" => ~verdict.allowed

\* C11 witness: can_edit_event has allowed such a co_host of an event that
\* belongs to a community
C11_Witness ==
    /\ verdict.check = "can_edit_event"
    /\ OnlyCoHost(verdict.user, verdict.event)
    /\ evCommunity[verdict.event] # NoCommunity
    /\ verdict.allowed

\* C12: for an event of a community, can_delete_event allows a user who is
\* no system admin only if the user holds an active owner or admin
\* membership of that community (being the organizer is not enough).
C12_DeleteNeedsCommunityRole ==
    (/\ verdict.check = "can_delete_event"
     /\ verdict.allowed
     /\ evCommunity[verdict.event] # NoCommunity
     /\ ~is_system_admin(verdict.user))
        => ActiveMembership(verdict.user, evCommunity[verdict.event], {ROLE_OWNER, ROLE_ADMIN})

\* ------------------------------------------------------------------------
\* Properties of the event views
\* ------------------------------------------------------------------------
\* u is a system admin or an active owner or admin of the community of e
MayApprove(u, e) ==
    \/ is_system_admin(u)
    \/ /\ evCommunity[e] # NoCommunity
       /\ ActiveMembership(u, evCommunity[e], {ROLE_OWNER, ROLE_ADMIN})

\* C13: a request changes the status of an event to approved or rejected
\* only if its user is a system admin or an active owner or admin of the
\* event's community.
C13_ApprovalNeedsRole ==
    [][\A e \in EventIds :
          (evStatus'[e] # evStatus[e] /\ evStatus'[e] \in {STATUS_APPROVED, STATUS_REJECTED})
              => MayApprove(vresp'.user, e)]_vars

\* ------------------------------------------------------------------------
\* Properties of registration and the event status
\* ------------------------------------------------------------------------
\* C14: every registration and every attendance row belongs to an event
\* whose status is approved (no request changes the status here, so the
\* row was created while the event had this status).
C14_RegisterOnlyApproved ==
    /\ \A r \in regs : evStatus[r.event] = STATUS_APPROVED
    /\ \A k \in attendance : evStatus[k[1]] = STATUS_APPROVED

\* C15: a register request of a user who already has a registration for the
\* event is answered with 400 and the error 'Already registered', and the
\* user still has exactly one registration for the event.
C15_DuplicateIs400 ==
    [][\A u \in Attendees :
          (nreq'[u] # nreq[u] /\ Registered(rcur'[u].event, u))
              => /\ rcur'[u].response.code = 400
                 /\ rcur'[u].response.error = "Already registered"
                 /\ Cardinality({r \in regs' : r.event = rcur'[u].event /\ r.user = u}) = 1]_vars

\* ------------------------------------------------------------------------
\* Properties of log_activity
\* ------------------------------------------------------------------------
\* process_activity has been called for activity id, or a ledger entry
\* references it
ReputationEffect(id) ==
    \/ calls[id] > 0
    \/ LedgerCount(id) > 0
    \/ \E w \in Workers : pc[w] # "idle" /\ cur[w].act = id

\* C16: reputation processing of an activity happens only once the
\* transaction that wrote the activity has committed: there is no call of
\* process_activity, no ledger entry and no stats change for an activity
\* whose transaction is open or was rolled back.
C16_ReputationAfterCommit ==
    \A id \in ActivityIds : ReputationEffect(id) => txState[id] = "committed"

\* C16 witness: one activity was rolled back and has no ledger entry, another
\* was committed and has its entry, and no call is running
C16_Witness ==
    /\ AllIdle
    /\ \E id \in ActivityIds :
          /\ txState[id] = "rolled_back"
          /\ ReputationBearing(id)
          /\ LedgerCount(id) = 0
    /\ \E id \in ActivityIds :
          /\ txState[id] = "committed"
          /\ LedgerCount(id) = 1

\* ------------------------------------------------------------------------
\* Properties of the attendance scan
\* ------------------------------------------------------------------------
\* u is a system admin, the organizer of e, an active team member of e, or
\* an active owner, admin or organizer of the community of e
MayScan(u, e) ==
    \/ is_system_admin(u)
    \/ evOrganizer[e] = u
    \/ ActiveTeamMember(u, e, TEAM_ROLE_CHOICES)
    \/ /\ evCommunity[e] # NoCommunity
       /\ ActiveMembership(u, evCommunity[e], ELEVATED_COMMUNITY_ROLES)

\* C17: a scan of an existing qr code during the event's scan window is
\* accepted (200) exactly when the scanner is a system admin, the organizer,
\* an active team member or community-elevated; every other scanner gets
\* 403 and the attendance row is unchanged.
C17_ScanAuthorization ==
    [][(/\ vresp' # vresp
        /\ vresp'.view = "ScanQRView.post"
        /\ vresp'.event # NoEvent
        /\ vresp'.error # "Scanning allowed only during event hours.")
          => IF MayScan(vresp'.user, vresp'.event)
             THEN vresp'.code = 200
             ELSE vresp'.code = 403 /\ checkIn' = checkIn]_vars

\* ------------------------------------------------------------------------
\* Properties of can_edit_event and of the system admin
\* ------------------------------------------------------------------------
\* the users the edit rule names: system admin, organizer, active host or
\* co_host, active owner, admin or organizer of the event's community
NamedEditor(u, e) ==
    \/ account[u].is_superuser
    \/ account[u].role = "admin"
    \/ evOrganizer[e] = u
    \/ /\ team[<<e, u>>].present
       /\ team[<<e, u>>].is_active
       /\ team[<<e, u>>].role \in {"host", "co_host"}
    \/ /\ evCommunity[e] # NoCommunity
       /\ members[<<evCommunity[e], u>>].present
       /\ members[<<evCommunity[e], u>>].is_active
       /\ members[<<evCommunity[e], u>>].role \in {"owner", "admin", "organizer"}

\* C18: can_edit_event allows exactly the authenticated users that are a
\* system admin, the organizer, an active host or co_host, or an active
\* owner, admin or organizer of the event's community.
C18_EditExactly ==
    verdict.check = "can_edit_event"
        => (verdict.allowed
              <=> (/\ account[verdict.user].is_authenticated
                   /\ NamedEditor(verdict.user, verdict.event)))

\* C18 witness: can_edit_event has denied a user whose only role is an
\* inactive owner membership of the event's community
C18_Witness ==
    /\ verdict.check = "can_edit_event"
    /\ ~verdict.allowed
    /\ account[verdict.user] = Account(FALSE, "student")
    /\ evOrganizer[verdict.event] # verdict.user
    /\ ~team[<<verdict.event, verdict.user>>].present
    /\ evCommunity[verdict.event] # NoCommunity
    /\ members[<<evCommunity[verdict.event], verdict.user>>] = Member(ROLE_OWNER, FALSE)

\* C19: every check of the policy allows a system admin, whatever the state
\* of the event, of the community and of the registration.
C19_SystemAdminAlwaysAllowed ==
    (verdict.check # "" /\ is_system_admin(verdict.user)) => verdict.allowed

\* ------------------------------------------------------------------------
\* Properties of transition()
\* ------------------------------------------------------------------------
\* C20: transition(event, to) succeeds exactly when `to` is the current
\* status or is listed for it in the table; after a success event.status is
\* `to` (and so is the row when the call saves), and a self-transition
\* leaves the status as it was.
C20_TransitionExactly ==
    LET from == trResult.from
        to == trResult.to
        listed == CASE from = "draft" -> {"pending", "approved"}
                    [] from = "pending" -> {"approved", "rejected"}
                    [] from = "approved" -> {"rejected", "pending"}
                    [] from = "rejected" -> {"pending", "draft"}
                    [] OTHER -> {}
    IN trResult.event # 0
          => /\ trResult.success <=> (to = from \/ to \in listed)
             /\ trResult.success =>
                   /\ trResult.status = to
                   /\ evStatus[trResult.event] = (IF trResult.save THEN to ELSE from)
             /\ to = from =>
                   /\ trResult.status = from
                   /\ evStatus[trResult.event] = from

\* C20 witness: a saved self-transition of a rejected event has succeeded
C20_Witness ==
    /\ trResult.event # 0
    /\ trResult.from = "rejected"
    /\ trResult.to = "rejected"
    /\ trResult.save
    /\ trResult.success
    /\ evStatus[trResult.event] = "rejected"

\* the statuses an event in one of `from` gets to by successful transition()
\* calls, at most n of them
RECURSIVE ReachableStatuses(_, _)
ReachableStatuses(from, n) ==
    IF n = 0 THEN from
    ELSE ReachableStatuses(
             from \cup {t \in STATUS_CHOICES : \E s \in from : can_transition(s, t).can},
             n - 1)

\* C21: no status is terminal: is_terminal_status is false for the status of
\* every event and transition() allows a change to some different status,
\* and a rejected event gets to approved by allowed transitions (in steps of
\* the model: the status of an event that was rejected is always one of the
\* statuses the table lets it reach, and approved is one of them).
C21_NoTerminalStatus ==
    /\ \A e \in EventIds :
          /\ ~is_terminal_status(evStatus[e])
          /\ \E t \in STATUS_CHOICES \ {evStatus[e]} : can_transition(evStatus[e], t).can
          /\ get_allowed_transitions(evStatus[e]) \ {evStatus[e]} # {}
          /\ evStatus[e] \in ReachableStatuses({"rejected"}, Cardinality(STATUS_CHOICES))
    /\ "approved" \in ReachableStatuses({"rejected"}, Cardinality(STATUS_CHOICES))

\* C21 witness: an event that was rejected is approved, by a saved
\* transition from pending
C21_Witness ==
    /\ trResult.event # 0
    /\ trResult.from = "pending"
    /\ trResult.to = "approved"
    /\ trResult.save
    /\ trResult.success
    /\ evStatus[trResult.event] = "approved"

\* ------------------------------------------------------------------------
\* Properties of check-in and check-out
\* ------------------------------------------------------------------------
\* C22: an accepted scan (200) of a code whose attendance row has no
\* check_in sets check_in and leaves check_out unset; an accepted scan of a
\* code whose row has check_in set (the second scan) sets check_out.
C22_SecondScanChecksOut ==
    [][LET qr == <<vresp'.event, ScannedAttendee>>
       IN (/\ vresp' # vresp
           /\ vresp'.view = "ScanQRView.post"
           /\ vresp'.code = 200)
             => IF qr \notin checkIn
                THEN qr \in checkIn' /\ qr \notin checkOut'
                ELSE qr \in checkOut']_vars

\* C23: a scan sets check_in only for an event whose status is approved.
C23_ScanOnlyApproved ==
    [][\A qr \in attendance :
          (qr \notin checkIn /\ qr \in checkIn') => evStatus[qr[1]] = "approved"]_vars

C25_AlreadyMemberJoinIsNoOp ==
    [][\A u \in Users :
          /\ (/\ jpc[u] = "get_or_create"
              /\ jpc'[u] = "mark_used"
              /\ members[<<OtherCommunity, u>>].present)
                => members' = members
          /\ (jpc[u] = "mark_used" /\ jpc'[u] = "done" /\ ~jcur[u].created)
                => /\ jcur'[u].code = 200
                   /\ jcur'[u].already_member
                   /\ invite'.used_count = invite.used_count
                   /\ invite'.is_active = invite.is_active]_vars

\* C28: for an invite with max_uses = m >= 1, at most m users are joined by it,
\* used_count never exceeds m, and once used_count has reached m the invite
\* is inactive and no longer valid.
C28_InviteUsesBounded ==
    (invite.has_max_uses /\ invite.max_uses >= 1)
       => /\ Cardinality(joined) <= invite.max_uses
          /\ invite.used_count <= invite.max_uses
          /\ invite.used_count >= invite.max_uses
                => (~invite.is_active /\ ~is_valid_now(invite))

\* ------------------------------------------------------------------------
\* Properties of the status changes made by the views
\* ------------------------------------------------------------------------
\* C26: every change of an event's status made by EventApprovalView.post or
\* EventDetailView.put is a transition listed in the lifecycle table; in
\* particular draft -> rejected and rejected -> approved never happen in
\* one step.
C26_ViewsFollowLifecycle ==
    [][\A e \in EventIds :
          LET from == evStatus[e]
              to == evStatus'[e]
              listed == CASE from = "draft" -> {"pending", "approved"}
                          [] from = "pending" -> {"approved", "rejected"}
                          [] from = "approved" -> {"rejected", "pending"}
                          [] from = "rejected" -> {"pending", "draft"}
                          [] OTHER -> {}
          IN (/\ vresp'.view \in {"EventApprovalView.post", "EventDetailView.put"}
              /\ to # from)
                => to \in listed]_vars

\* ------------------------------------------------------------------------
\* Properties of the registrations created for a team
\* ------------------------------------------------------------------------
\* C27: for an event with capacity c > 0, the number of its registrations
\* plus the sum of their guests_count never exceeds c, whichever of the
\* register endpoint and the team join created them.
C27_CapacityNeverExceeded ==
    \A e \in EventIds :
        evCapacity[e] > 0 => Cardinality(RegsOf(e)) + SumGuests(RegsOf(e)) <= evCapacity[e]

\* ------------------------------------------------------------------------
\* Properties of the event status signals
\* ------------------------------------------------------------------------
\* C29: a save that changes the row's status to approved (rejected) from a
\* different status logs exactly one event.approved (event.rejected)
\* activity, and a save that leaves the row's status as it was logs none,
\* whatever other saves run at the same time.
C29_OneActivityPerStatusChange ==
    \A w \in Workers :
        spc[w] = "done" =>
            LET changed == scur[w].row_before # scur[w].status
            IN /\ (changed /\ scur[w].status = "approved")
                     => scur[w].logged = "event.approved"
               /\ (changed /\ scur[w].status = "rejected")
                     => scur[w].logged = "event.rejected"
               /\ ~changed => scur[w].logged = ""

\* ------------------------------------------------------------------------
\* Properties of the two edit-permission checks
\* ------------------------------------------------------------------------
\* C30: for every authenticated user (any global role, superuser or not),
\* every event and every configuration of community and team memberships,
\* user_can_edit_event of the views returns what EventPolicy.can_edit_event
\* returns.
C30_EditHelpersAgree ==
    (/\ verdict.check = "can_edit_event"
     /\ account[verdict.user].is_authenticated)
        => (verdict.allowed <=> user_can_edit_event(verdict.user, verdict.event))

====
